---- MODULE Spec2Model ----
(***************************************************************************)
(* The Intcode toolchain: the virtual machine (core/run/src/lib.rs) and    *)
(* the assembler backend (core/src/assemble.rs).                           *)
(*                                                                         *)
(* The VM is modelled one loop iteration of Computer::next at a time: the  *)
(* field result.kind is "Running" while a call of next() is inside its     *)
(* loop and the returned State (or error, or panic) once it has left it.   *)
(***************************************************************************)
EXTENDS Integers, Sequences, FiniteSets, TLC

(***************************************************************************)
(* Bounds of the model.                                                    *)
(***************************************************************************)
\* width of a memory word: i64 scaled down so that TLC, whose integers have
\* 32 bits, can compute the sums that leave it
WordBits == 29
\* total number of values the caller feeds over a run
MaxFed == 2
\* number of step() calls that return Yielded over a run
MaxYield == 3

Modulus == 2 ^ WordBits
IntMax == (2 ^ (WordBits - 1)) - 1
IntMin == 0 - (2 ^ (WordBits - 1))

\* the values the caller feeds
InputValues == {0, 7}

VARIABLES
    mem,            \* Computer.mem, a sequence: address a is mem[a + 1]
    ptr,            \* Computer.ptr
    relative_base,  \* Computer.relative_base
    input,          \* Computer.input, the queue of fed values
    result,         \* where the current call of next() stands / what it returned
    fed,            \* history: every value passed to feed(), in order
    consumed,       \* history: every value popped by an Input instruction
    stored,         \* history: every value an Input instruction stored
    yielded,        \* history: the values of the Yielded results, in order
    outs,           \* history: the p1 of every executed Output instruction
    prev,           \* history: the VM as it was before the last iteration
    lastAct,        \* history: "new" before the first iteration, then "step"
    spin,           \* history: the parity of the number of iterations executed
    ast,            \* assemble: the statements of the program being assembled
    asmPc,          \* assemble: the statement the first loop stands at
    output,         \* assemble: the words emitted, address a is output[a + 1]
    labels,         \* assemble: the label table, in order of insertion
    errors,         \* assemble: the errors so far
    warnings,       \* assemble: the warnings so far
    asmResult,      \* assemble: "none", then "Ok" or "Err" once it has returned
    source,         \* the text read, a sequence of characters: byte i is source[i + 1]
    lexPos,         \* Tokens: where the iterator of a lexer stands in the text
    toks,           \* history: the tokens the calls of Tokens::next returned
    lexErr,         \* history: the errors the calls of Tokens::next returned
    cursor,         \* Parser.tokens: where the lexer of the parser stands
    stmts,          \* eat_program: the statements parsed so far
    perrors,        \* eat_program: the errors so far
    parsed,         \* eat_program: "none", then "Ok" or "Err" once it has returned
    slots,          \* disassemble: Program.slots, address a is slots[a + 1]
    dmem,           \* dynamically::Computer.mem
    dptr,           \* dynamically::Computer.ptr
    drb,            \* dynamically::Computer.relative_base
    dinput,         \* dynamically::Computer.input
    dres,           \* where the current call of the marker's next() stands
    runs,           \* mark: the runs not finished, the current one first
    phase,          \* to_ast: the stage the disassembly stands at
    vmOut,          \* history: what the VM does on the marker's last instruction
    entry,          \* history: the marks on entry to statically::mark
    taken,          \* labels: the number of labels taken from unique()
    names,          \* history: the labels taken from unique(), in order
    dast            \* into_ast: the statements of the disassembly

vmVars == <<mem, ptr, relative_base, input, result, fed, consumed, stored,
            yielded, outs, prev, lastAct, spin>>

asmVars == <<ast, asmPc, output, labels, errors, warnings, asmResult>>

frontVars == <<source, lexPos, toks, lexErr, cursor, stmts, perrors, parsed>>

disVars == <<slots, dmem, dptr, drb, dinput, dres, runs, phase, vmOut, entry,
             taken, names, dast>>

vars == <<vmVars, asmVars, frontVars, disVars>>

(***************************************************************************)
(* i64 arithmetic.                                                         *)
(***************************************************************************)
Max(a, b) == IF a >= b THEN a ELSE b

\* Rust's `/` and `%` on i64 truncate toward zero
RustDiv(a, b) == IF a >= 0 THEN a \div b ELSE 0 - ((0 - a) \div b)
RustRem(a, b) == a - b * RustDiv(a, b)

InRange(x) == x >= IntMin /\ x <= IntMax
Wrap(x) == ((x - IntMin) % Modulus) + IntMin

Ok(v) == [tag |-> "Ok", v |-> v]
Panic == [tag |-> "Panic", v |-> 0]

\* `+` and `*` on i64: a build with overflow checks panics on overflow,
\* a build without them wraps
Arith(x, checks) ==
    IF InRange(x) THEN Ok(x)
    ELSE IF checks THEN Panic
    ELSE Ok(Wrap(x))

\* fn cast(num: i64) -> usize
cast(num) == IF num >= 0 THEN Ok(num) ELSE Panic

(***************************************************************************)
(* Memory.                                                                 *)
(***************************************************************************)
mem_get(m, addr) == IF addr < Len(m) THEN m[addr + 1] ELSE 0

\* a mutant of mem_get_mut: resizes to addr + 1 without the max
mem_get_mut_exact(m, addr) ==
    [k \in 1..(addr + 1) |-> IF k <= Len(m) THEN m[k] ELSE 0]

\* the resize of mem_get_mut
mem_get_mut(m, addr) ==
    [k \in 1..Max(Len(m), addr + 1) |-> IF k <= Len(m) THEN m[k] ELSE 0]

\* `*self.mem_get_mut(addr) = v`
mem_set(m, addr, v) == [mem_get_mut(m, addr) EXCEPT ![addr + 1] = v]

(***************************************************************************)
(* Parameters.                                                             *)
(***************************************************************************)
mode_digit(m, p, i) == RustRem(RustDiv(mem_get(m, p), 10 ^ (1 + i)), 10)

param_ptr(m, p, rb, checks, i) ==
    LET q == p + i
        mode == mode_digit(m, p, i)
    IN  CASE mode = 0 -> cast(mem_get(m, q))
          [] mode = 1 -> Ok(q)
          [] mode = 2 ->
                LET s == Arith(rb + mem_get(m, q), checks)
                IN  IF s.tag = "Ok" THEN cast(s.v) ELSE s
          [] OTHER -> [tag |-> "UnknownMode", v |-> mode]

param(m, p, rb, checks, i) ==
    LET a == param_ptr(m, p, rb, checks, i)
    IN  IF a.tag = "Ok" THEN Ok(mem_get(m, a.v)) ELSE a

(***************************************************************************)
(* One iteration of the loop of Computer::next.  The outcome is a record:  *)
(* kind is "Running" when the loop goes round again, otherwise what the    *)
(* call returns ("Yielded", "Waiting", "Complete", "UnknownMode",          *)
(* "UnknownOpcode") or "Panic" when the call unwinds.                      *)
(***************************************************************************)
Outcome(kind, val, m, p, rb, inp) ==
    [kind |-> kind, val |-> val, mem |-> m, ptr |-> p, rb |-> rb, input |-> inp]

\* `?` on an Err, or the unwinding of a panic: the fields stay as they are
Fail(r, m, p, rb, inp) == Outcome(r.tag, r.v, m, p, rb, inp)

\* what the four three-parameter instructions compute
Compute(op, x, y, checks) ==
    CASE op = 1 -> Arith(x + y, checks)
      [] op = 2 -> Arith(x * y, checks)
      [] op = 7 -> Ok(IF x < y THEN 1 ELSE 0)
      [] op = 8 -> Ok(IF x = y THEN 1 ELSE 0)

\* opcodes 1, 2, 7, 8: `*self.param_mut(3)? = self.param(1)? <op> self.param(2)?`
\* the assigned value is evaluated before the place
ExecStore(op, m, p, rb, inp, checks) ==
    LET x == param(m, p, rb, checks, 1)
        y == param(m, p, rb, checks, 2)
        r == Compute(op, x.v, y.v, checks)
        z == param_ptr(m, p, rb, checks, 3)
    IN  IF x.tag # "Ok" THEN Fail(x, m, p, rb, inp)
        ELSE IF y.tag # "Ok" THEN Fail(y, m, p, rb, inp)
        ELSE IF r.tag # "Ok" THEN Fail(r, m, p, rb, inp)
        ELSE IF z.tag # "Ok" THEN Fail(z, m, p, rb, inp)
        ELSE Outcome("Running", 0, mem_set(m, z.v, r.v), p + 4, rb, inp)

\* a mutant of ExecInput: Waiting steps over the Input
ExecInputAdvancing(m, p, rb, inp, checks) ==
    IF inp # <<>>
    THEN LET z == param_ptr(m, p, rb, checks, 1)
         IN  IF z.tag # "Ok" THEN Fail(z, m, p, rb, Tail(inp))
             ELSE Outcome("Running", 0, mem_set(m, z.v, Head(inp)), p + 2, rb,
                          Tail(inp))
    ELSE Outcome("Waiting", 0, m, p + 2, rb, inp)

\* a mutant of ExecInput: pop_back in place of pop_front
ExecInputLifo(m, p, rb, inp, checks) ==
    IF inp # <<>>
    THEN LET z == param_ptr(m, p, rb, checks, 1)
             rest == SubSeq(inp, 1, Len(inp) - 1)
         IN  IF z.tag # "Ok" THEN Fail(z, m, p, rb, rest)
             ELSE Outcome("Running", 0, mem_set(m, z.v, inp[Len(inp)]), p + 2,
                          rb, rest)
    ELSE Outcome("Waiting", 0, m, p, rb, inp)

\* opcode 3
ExecInput(m, p, rb, inp, checks) ==
    IF inp # <<>>
    THEN LET z == param_ptr(m, p, rb, checks, 1)
         IN  IF z.tag # "Ok" THEN Fail(z, m, p, rb, Tail(inp))
             ELSE Outcome("Running", 0, mem_set(m, z.v, Head(inp)), p + 2, rb,
                          Tail(inp))
    ELSE Outcome("Waiting", 0, m, p, rb, inp)

\* a mutant of ExecOutput: yields before it advances
ExecOutputNoAdvance(m, p, rb, inp, checks) ==
    LET x == param(m, p, rb, checks, 1)
    IN  IF x.tag # "Ok" THEN Fail(x, m, p, rb, inp)
        ELSE Outcome("Yielded", x.v, m, p, rb, inp)

\* opcode 4
ExecOutput(m, p, rb, inp, checks) ==
    LET x == param(m, p, rb, checks, 1)
    IN  IF x.tag # "Ok" THEN Fail(x, m, p, rb, inp)
        ELSE Outcome("Yielded", x.v, m, p + 2, rb, inp)

\* opcodes 5 and 6
ExecJump(op, m, p, rb, inp, checks) ==
    LET x == param(m, p, rb, checks, 1)
        y == param(m, p, rb, checks, 2)
        t == cast(y.v)
    IN  IF x.tag # "Ok" THEN Fail(x, m, p, rb, inp)
        ELSE IF (op = 5 /\ x.v # 0) \/ (op = 6 /\ x.v = 0)
        THEN IF y.tag # "Ok" THEN Fail(y, m, p, rb, inp)
             ELSE IF t.tag # "Ok" THEN Fail(t, m, p, rb, inp)
             ELSE Outcome("Running", 0, m, t.v, rb, inp)
        ELSE Outcome("Running", 0, m, p + 3, rb, inp)

\* opcode 9
ExecAdjust(m, p, rb, inp, checks) ==
    LET x == param(m, p, rb, checks, 1)
        r == Arith(rb + x.v, checks)
    IN  IF x.tag # "Ok" THEN Fail(x, m, p, rb, inp)
        ELSE IF r.tag # "Ok" THEN Fail(r, m, p, rb, inp)
        ELSE Outcome("Running", 0, m, p + 2, r.v, inp)

\* a mutant of ExecInstr: Halt goes round the loop again
ExecInstrHaltSpins(m, p, rb, inp, checks) ==
    LET op == RustRem(mem_get(m, p), 100)
    IN  CASE op \in {1, 2, 7, 8} -> ExecStore(op, m, p, rb, inp, checks)
          [] op = 3 -> ExecInput(m, p, rb, inp, checks)
          [] op = 4 -> ExecOutput(m, p, rb, inp, checks)
          [] op \in {5, 6} -> ExecJump(op, m, p, rb, inp, checks)
          [] op = 9 -> ExecAdjust(m, p, rb, inp, checks)
          [] op = 99 -> Outcome("Running", 0, m, p, rb, inp)
          [] OTHER -> Outcome("UnknownOpcode", op, m, p, rb, inp)

\* the match of Computer::next on `self.mem_get(self.ptr) % 100`
ExecInstr(m, p, rb, inp, checks) ==
    LET op == RustRem(mem_get(m, p), 100)
    IN  CASE op \in {1, 2, 7, 8} -> ExecStore(op, m, p, rb, inp, checks)
          [] op = 3 -> ExecInput(m, p, rb, inp, checks)
          [] op = 4 -> ExecOutput(m, p, rb, inp, checks)
          [] op \in {5, 6} -> ExecJump(op, m, p, rb, inp, checks)
          [] op = 9 -> ExecAdjust(m, p, rb, inp, checks)
          [] op = 99 -> Outcome("Complete", 0, m, p, rb, inp)
          [] OTHER -> Outcome("UnknownOpcode", op, m, p, rb, inp)

(***************************************************************************)
(* The programs the VM is started on.                                      *)
(***************************************************************************)
\* every one-instruction program followed by HLT: each mode digit 0..3 in
\* each position, parameters that are negative, inside the program and past
\* its end
ModeDigits == 0..3
ParamValues == {0 - 1, 0, 6}

OpWord(op, m1, m2, m3) == op + 100 * m1 + 1000 * m2 + 10000 * m3

Gen3 ==
    {q \in {<<OpWord(op, m1, m2, m3), a, b, c, 99>> :
                op \in {1, 7}, m1 \in ModeDigits, m2 \in ModeDigits,
                m3 \in ModeDigits, a \in ParamValues, b \in ParamValues,
                c \in ParamValues} : InRange(q[1])}

Gen2 ==
    {<<OpWord(op, m1, m2, 0), a, b, 99>> :
        op \in {5, 6}, m1 \in ModeDigits, m2 \in ModeDigits,
        a \in ParamValues, b \in ParamValues}

Gen1 ==
    {<<OpWord(op, m1, 0, 0), a, 99>> :
        op \in {3, 4, 9}, m1 \in ModeDigits, a \in ParamValues}

GeneratedPrograms == Gen3 \cup Gen2 \cup Gen1

\* programs of several instructions
ExamplePrograms ==
    { <<3, 7, 4, 7, 1105, 1, 0, 0>>,                  \* echo, for ever
      <<1105, 1, 0>>,                                 \* a loop without I/O
      <<1106, 0, 0>>,
      <<1101, 0, 1, 20, 1106, 0, 0>>,
      <<109, 1, 204, 0 - 1, 1001, 100, 1, 100, 1008, 100, 16, 101,
        1006, 101, 0, 99>>,                            \* the quine
      <<3, 9, 8, 9, 10, 9, 4, 9, 99, 0 - 1, 8>>,      \* is the input 8?
      <<3, 11, 3, 12, 1, 11, 12, 13, 4, 13, 99>>,     \* the sum of two inputs
      <<1101, IntMax, 1, 5, 4, 5, 99>>,               \* a sum out of range
      <<1101, IntMin, 0 - 1, 5, 4, 5, 99>>,
      <<1102, IntMax, 2, 5, 4, 5, 99>>,               \* a product out of range
      <<109, IntMax, 109, 1, 204, 1, 99>>,            \* rb out of range
      <<109, IntMax, 204, 1, 99>>,                    \* rb + p out of range
      <<109, 3, 203, 4, 204, 4, 1105, 1, 2>>,         \* relative echo
      <<303, 0, 4, 0, 99>>,                           \* Input, mode digit 3
      <<103, 0, 4, 1, 99>>,                           \* Input, immediate
      <<3, 0 - 1, 99>>,                               \* Input, address -1
      <<3105, 0, 0, 104, 5, 99>>,                     \* jump not taken, digit 3
      <<3106, 1, 0, 104, 5, 99>>,
      <<11101, 2, 3, 0, 4, 3, 99>>,                   \* immediate write target
      <<1101, 2, 3, 9, 4, 9, 4, 8, 99>>,              \* a write past the end
      <<1002, 4, 3, 4, 33>>,                          \* MUL a, #3, 4
      <<8, 5, 6, 7, 104, 0, 4, 7, 99>>,               \* EQ past the end
      <<0 - 1>>, <<>>, <<99>>, <<0>> }

Programs == GeneratedPrograms \cup ExamplePrograms

(***************************************************************************)
(* The VM: Computer::new, Computer::feed and Computer::next.               *)
(***************************************************************************)
Snapshot == [mem |-> mem, ptr |-> ptr, rb |-> relative_base, input |-> input,
             result |-> result]

\* Computer::new(program)
InitOn(programs) ==
    /\ mem \in programs
    /\ ptr = 0
    /\ relative_base = 0
    /\ input = <<>>
    /\ result = [kind |-> "None", val |-> 0]
    /\ fed = <<>>
    /\ consumed = <<>>
    /\ stored = <<>>
    /\ yielded = <<>>
    /\ outs = <<>>
    /\ prev = [mem |-> mem, ptr |-> 0, rb |-> 0, input |-> <<>>,
               result |-> [kind |-> "None", val |-> 0]]
    /\ lastAct = "new"
    /\ spin = 0

\* no program is being assembled
AsmIdle ==
    /\ ast = <<>>
    /\ asmPc = 1
    /\ output = <<>>
    /\ labels = <<>>
    /\ errors = <<>>
    /\ warnings = <<>>
    /\ asmResult = "none"

\* no source text is being read
FrontIdle ==
    /\ source = <<>>
    /\ lexPos = 0
    /\ toks = <<>>
    /\ lexErr = <<>>
    /\ cursor = 0
    /\ stmts = <<>>
    /\ perrors = <<>>
    /\ parsed = "none"

\* no program is being disassembled
DisIdle ==
    /\ slots = <<>>
    /\ dmem = <<>>
    /\ dptr = 0
    /\ drb = 0
    /\ dinput = <<>>
    /\ dres = [kind |-> "None", val |-> 0]
    /\ runs = <<>>
    /\ phase = "idle"
    /\ vmOut = [kind |-> "None", val |-> 0, mem |-> <<>>, ptr |-> 0, rb |-> 0,
                input |-> <<>>]
    /\ entry = <<>>
    /\ taken = 0
    /\ names = <<>>
    /\ dast = <<>>

Init == InitOn(Programs) /\ AsmIdle /\ FrontIdle /\ DisIdle

SeqsUpTo(S, n) == UNION {[1..k -> S] : k \in 1..n}

\* Computer::feed(iter), between two calls of next()
Feed(vs) ==
    /\ result.kind \notin {"Running", "Panic"}
    /\ Len(fed) + Len(vs) <= MaxFed
    /\ input' = input \o vs
    /\ fed' = fed \o vs
    /\ UNCHANGED <<mem, ptr, relative_base, result, consumed, stored, yielded,
                   outs, prev, lastAct, spin>>
    /\ UNCHANGED asmVars
    /\ UNCHANGED frontVars
    /\ UNCHANGED disVars

\* one iteration of the loop of Computer::next: the first of a new call when
\* the last call has returned, the next of the running call otherwise
Step(checks) ==
    /\ result.kind # "Panic"
    /\ result.kind # "Running" => Len(yielded) < MaxYield
    /\ LET o == ExecInstr(mem, ptr, relative_base, input, checks)
           op == RustRem(mem_get(mem, ptr), 100)
           target == param_ptr(mem, ptr, relative_base, checks, 1)
           p1 == param(mem, ptr, relative_base, checks, 1)
       IN  /\ mem' = o.mem
           /\ ptr' = o.ptr
           /\ relative_base' = o.rb
           /\ input' = o.input
           /\ result' = [kind |-> o.kind, val |-> o.val]
           /\ consumed' = consumed \o SubSeq(input, 1, Len(input) - Len(o.input))
           /\ stored' = IF op = 3 /\ o.kind = "Running"
                        THEN Append(stored, mem_get(o.mem, target.v))
                        ELSE stored
           /\ yielded' = IF o.kind = "Yielded" THEN Append(yielded, o.val)
                         ELSE yielded
           /\ outs' = IF op = 4 /\ p1.tag = "Ok" THEN Append(outs, p1.v)
                      ELSE outs
    /\ prev' = Snapshot
    /\ lastAct' = "step"
    /\ spin' = 1 - spin
    /\ UNCHANGED fed
    /\ UNCHANGED asmVars
    /\ UNCHANGED frontVars
    /\ UNCHANGED disVars

Next ==
    \/ \E vs \in SeqsUpTo(InputValues, MaxFed) : Feed(vs)
    \/ \E checks \in BOOLEAN : Step(checks)

Spec == Init /\ [][Next]_vars

\* a call of next() that has started goes on running: the loop of next()
\* takes its next iteration.  The programs are those of several instructions
\* and the one-instruction programs of one and two parameters.
FairInit == InitOn(ExamplePrograms \cup Gen2 \cup Gen1) /\ AsmIdle /\ FrontIdle
            /\ DisIdle

FairSpec ==
    /\ FairInit
    /\ [][Next]_vars
    /\ WF_vars(\E checks \in BOOLEAN : Step(checks))

TypeOK ==
    /\ mem \in Seq(Int)
    /\ \A k \in 1..Len(mem) : InRange(mem[k])
    /\ ptr \in Nat
    /\ InRange(relative_base)
    /\ result.kind \in {"None", "Running", "Yielded", "Waiting", "Complete",
                        "UnknownMode", "UnknownOpcode", "Panic"}

(***************************************************************************)
(* The vocabulary of the properties: the instruction a snapshot s of the   *)
(* VM stands at, read as section 4.5 of the specification reads it.        *)
(***************************************************************************)
WordAt(s, a) == IF a < Len(s.mem) THEN s.mem[a + 1] ELSE 0
OpAt(s) == WordAt(s, s.ptr) % 100
DigitAt(s, k) == (WordAt(s, s.ptr) \div (10 ^ (k + 1))) % 10
RawAt(s, k) == WordAt(s, s.ptr + k)

\* the address parameter k stands for, and whether it stands for one
AddrAt(s, k) ==
    CASE DigitAt(s, k) = 0 -> RawAt(s, k)
      [] DigitAt(s, k) = 1 -> s.ptr + k
      [] OTHER -> Wrap(s.rb + RawAt(s, k))
Resolves(s, k) ==
    /\ WordAt(s, s.ptr) >= 0
    /\ DigitAt(s, k) \in {0, 1, 2}
    /\ DigitAt(s, k) = 2 => InRange(s.rb + RawAt(s, k))
    /\ AddrAt(s, k) >= 0
ValueAt(s, k) == WordAt(s, AddrAt(s, k))

IsPrefix(s, t) == Len(s) <= Len(t) /\ SubSeq(t, 1, Len(s)) = s

Stepped == lastAct = "step"
\* the last iteration was the first of a call made after Waiting and a feed
ResumedWithInput == Stepped /\ prev.result.kind = "Waiting" /\ prev.input # <<>>

(***************************************************************************)
(* C1 as stated: an Input on an empty queue returns Waiting and leaves ip, *)
(* the relative base and the memory as they are; after a feed, the next    *)
(* step executes that same Input and stores the first fed value.           *)
(***************************************************************************)
C1_WaitingLeavesVm ==
    (Stepped /\ WordAt(prev, prev.ptr) >= 0 /\ OpAt(prev) = 3
        /\ prev.input = <<>>)
    => /\ result.kind = "Waiting"
       /\ ptr = prev.ptr
       /\ relative_base = prev.rb
       /\ mem = prev.mem

C2_InputFifo ==
    /\ IsPrefix(stored, fed)
    /\ IsPrefix(consumed, fed)
    /\ consumed \o input = fed

C2_Witness ==
    /\ Len(stored) = 2
    /\ stored[1] # stored[2]
    /\ stored = fed

(***************************************************************************)
(* C3: an executed Output returns Yielded(p1) with ip advanced by 2, only  *)
(* an Output yields, and the Yielded values are the p1 of the executed     *)
(* Outputs, in order.                                                      *)
(***************************************************************************)
C3_OutputYields ==
    /\ yielded = outs
    /\ Stepped
       => /\ result.kind = "Yielded"
             => /\ OpAt(prev) = 4
                /\ result.val = ValueAt(prev, 1)
                /\ ptr = prev.ptr + 2
                /\ yielded # <<>>
                /\ yielded[Len(yielded)] = ValueAt(prev, 1)
          /\ (WordAt(prev, prev.ptr) >= 0 /\ OpAt(prev) = 4 /\ Resolves(prev, 1))
             => result.kind = "Yielded"

C3_Witness ==
    /\ Stepped
    /\ result.kind = "Yielded"
    /\ Len(yielded) >= 2
    /\ yielded[1] # yielded[2]

KnownOpcode(s) ==
    WordAt(s, s.ptr) >= 0 /\ OpAt(s) \in {1, 2, 3, 4, 5, 6, 7, 8, 9, 99}

ArityAt(s) ==
    CASE OpAt(s) \in {1, 2, 7, 8} -> 3
      [] OpAt(s) \in {5, 6} -> 2
      [] OpAt(s) \in {3, 4, 9} -> 1
      [] OTHER -> 0

\* the last iteration completed an instruction that writes
Wrote == Stepped /\ KnownOpcode(prev) /\ result.kind = "Running"
         /\ OpAt(prev) \in {1, 2, 3, 7, 8}
WriteAddr(s) == AddrAt(s, ArityAt(s))
WriteValue(s) ==
    CASE OpAt(s) = 1 -> Wrap(ValueAt(s, 1) + ValueAt(s, 2))
      [] OpAt(s) = 2 -> Wrap(ValueAt(s, 1) * ValueAt(s, 2))
      [] OpAt(s) = 3 -> Head(s.input)
      [] OpAt(s) = 7 -> IF ValueAt(s, 1) < ValueAt(s, 2) THEN 1 ELSE 0
      [] OpAt(s) = 8 -> IF ValueAt(s, 1) = ValueAt(s, 2) THEN 1 ELSE 0

C5_WriteGrowsMemory ==
    Wrote =>
        LET A == WriteAddr(prev)
            old == prev.mem
        IN  /\ Len(mem) = Max(Len(old), A + 1)
            /\ mem[A + 1] = WriteValue(prev)
            /\ \A a \in 0..(Len(mem) - 1) :
                  a # A => mem[a + 1] = IF a < Len(old) THEN old[a + 1] ELSE 0

\* a write that leaves a gap between the old end and A
C5_Witness ==
    /\ Wrote
    /\ WriteAddr(prev) > Len(prev.mem)
    /\ WriteValue(prev) # 0

(***************************************************************************)
(* C6: step() returns UnknownMode whenever a parameter 1..arity of the     *)
(* instruction at ip has a mode digit outside 0, 1, 2, the target of a     *)
(* jump that is not taken included.                                        *)
(***************************************************************************)
BadDigit(s) == \E k \in 1..ArityAt(s) : DigitAt(s, k) \notin {0, 1, 2}

\* nothing but a mode digit can end the instruction: it is not an Input on
\* an empty queue, its parameters with a digit 0, 1, 2 are addresses, and
\* its sum or product is within i64
Quiet(s) ==
    /\ ~(OpAt(s) = 3 /\ s.input = <<>>)
    /\ \A k \in 1..ArityAt(s) :
          DigitAt(s, k) \in {0, 1, 2}
          => /\ DigitAt(s, k) = 2 => InRange(s.rb + RawAt(s, k))
             /\ AddrAt(s, k) >= 0
    /\ (OpAt(s) \in {1, 2} /\ \A k \in 1..2 : DigitAt(s, k) \in {0, 1, 2})
       => InRange(IF OpAt(s) = 1 THEN ValueAt(s, 1) + ValueAt(s, 2)
                                 ELSE ValueAt(s, 1) * ValueAt(s, 2))

C6_BadDigitIsUnknownMode ==
    (Stepped /\ KnownOpcode(prev) /\ BadDigit(prev) /\ Quiet(prev))
    => result.kind = "UnknownMode"

(***************************************************************************)
(* C7: when a Positional or Relative parameter that the instruction        *)
(* resolves is a negative address, or the target of a taken jump is        *)
(* negative, step() returns an error to its caller and touches no memory.  *)
(***************************************************************************)
JumpTaken(s) ==
    \/ OpAt(s) = 5 /\ ValueAt(s, 1) # 0
    \/ OpAt(s) = 6 /\ ValueAt(s, 1) = 0

\* every parameter has a mode digit 0, 1, 2 and no sum leaves i64
Plain(s) ==
    /\ KnownOpcode(s)
    /\ \A k \in 1..ArityAt(s) :
          /\ DigitAt(s, k) \in {0, 1, 2}
          /\ DigitAt(s, k) = 2 => InRange(s.rb + RawAt(s, k))

\* the parameters the instruction resolves
Resolved(s) ==
    CASE OpAt(s) = 3 -> IF s.input = <<>> THEN {} ELSE {1}
      [] OpAt(s) \in {5, 6} ->
            IF AddrAt(s, 1) >= 0 /\ JumpTaken(s) THEN {1, 2} ELSE {1}
      [] OTHER -> 1..ArityAt(s)

NegativeAddress(s) ==
    \/ \E k \in Resolved(s) : DigitAt(s, k) \in {0, 2} /\ AddrAt(s, k) < 0
    \/ /\ OpAt(s) \in {5, 6}
       /\ \A k \in 1..2 : AddrAt(s, k) >= 0
       /\ JumpTaken(s)
       /\ ValueAt(s, 2) < 0

C7_NegativeAddressIsError ==
    (Stepped /\ Plain(prev) /\ NegativeAddress(prev))
    => /\ result.kind \in {"UnknownMode", "UnknownOpcode"}
       /\ mem = prev.mem

(***************************************************************************)
(* C8: an instruction whose write target (p3 of Add, Multiply, LessThan,   *)
(* Equal, p1 of Input) has mode digit 1 writes to no memory cell.          *)
(***************************************************************************)
ImmediateTarget(s) ==
    /\ KnownOpcode(s)
    /\ OpAt(s) \in {1, 2, 3, 7, 8}
    /\ DigitAt(s, ArityAt(s)) = 1

C8_ImmediateTargetWritesNothing ==
    (Stepped /\ ImmediateTarget(prev)) => mem = prev.mem

(***************************************************************************)
(* C9: Add stores the sum of p1 and p2 wrapped to 64 bits into p3 and      *)
(* advances ip by 4, whatever the operands; it does not fail on overflow.  *)
(***************************************************************************)
C9_AddWraps ==
    (Stepped /\ Plain(prev) /\ OpAt(prev) = 1
        /\ \A k \in 1..3 : AddrAt(prev, k) >= 0)
    => /\ result.kind = "Running"
       /\ ptr = prev.ptr + 4
       /\ WordAt([mem |-> mem], AddrAt(prev, 3))
             = Wrap(ValueAt(prev, 1) + ValueAt(prev, 2))

(***************************************************************************)
(* The assembler backend: the syntax tree (ast.rs).  A name is a sequence  *)
(* of characters, a span the place <<statement, parameter>> of the text.   *)
(***************************************************************************)
\* bounds of the programs assembled
MaxStmts == 2

\* impl From<Mode> for i64
ModeValue(m) ==
    CASE m = "Positional" -> 0
      [] m = "Immediate" -> 1
      [] m = "Relative" -> 2

\* enum Label, and the None of a statement without a label
NoLabel == [k |-> "None", name |-> <<>>]
Underscore == [k |-> "Underscore", name |-> <<"_">>]
InstructionPointer == [k |-> "InstructionPointer", name |-> <<"i", "p">>]
Fixed(name) == [k |-> "Fixed", name |-> name]

\* enum Param and enum RawParam
Number(m, v) ==
    [kind |-> "Number", mode |-> m, label |-> NoLabel, value |-> v,
     bytes |-> <<>>]
Label(m, l, o) ==
    [kind |-> "Label", mode |-> m, label |-> l, value |-> o, bytes |-> <<>>]
RawNumber(v) == Number("Positional", v)
RawLabel(l, o) == Label("Positional", l, o)
RawString(b) ==
    [kind |-> "String", mode |-> "Positional", label |-> NoLabel, value |-> 0,
     bytes |-> b]

\* enum Instr and struct Stmt
Instr(op, ps) == [op |-> op, params |-> ps]
Stmt(l, i) == [label |-> l, instr |-> i]

\* Instr::opcode
opcode(instr) ==
    CASE instr.op = "Add" -> 1
      [] instr.op = "Multiply" -> 2
      [] instr.op = "Input" -> 3
      [] instr.op = "Output" -> 4
      [] instr.op = "JumpNonZero" -> 5
      [] instr.op = "JumpZero" -> 6
      [] instr.op = "LessThan" -> 7
      [] instr.op = "Equal" -> 8
      [] instr.op = "AdjustRelativeBase" -> 9
      [] instr.op = "Halt" -> 99

(***************************************************************************)
(* The label table: IndexMap<&str, State>, kept in order of insertion.     *)
(***************************************************************************)
Diagnostic(msg, span) == [msg |-> msg, span |-> span]

HasEntry(ls, name) == \E j \in 1..Len(ls) : ls[j].name = name
EntryIndex(ls, name) == CHOOSE j \in 1..Len(ls) : ls[j].name = name

\* labels.entry(label).or_default()
Entry(ls, name) ==
    IF HasEntry(ls, name) THEN ls
    ELSE Append(ls, [name |-> name, defs |-> <<>>, refs |-> <<>>])

PushDef(ls, name, address, span) ==
    LET e == Entry(ls, name)
    IN  [e EXCEPT ![EntryIndex(e, name)].defs =
            Append(@, [at |-> address, span |-> span])]

PushRef(ls, name, address, span) ==
    LET e == Entry(ls, name)
    IN  [e EXCEPT ![EntryIndex(e, name)].refs =
            Append(@, [at |-> address, span |-> span])]

\* fn insert_label: the table, and the error if the label is reserved
insert_label(ls, label, address, span) ==
    CASE label.k = "None" -> [labels |-> ls, errs |-> <<>>]
      [] label.k = "Underscore" ->
            [labels |-> ls,
             errs |-> <<Diagnostic("label is reserved to indicate a runtime value",
                                   span)>>]
      [] label.k = "InstructionPointer" ->
            [labels |-> ls,
             errs |-> <<Diagnostic(
                 "label is reserved to refer to the instruction pointer", span)>>]
      [] label.k = "Fixed" /\ label.name = <<"r", "b">> ->
            [labels |-> ls,
             errs |-> <<Diagnostic(
                 "label is reserved to refer to the relative base", span)>>]
      [] OTHER ->
            [labels |-> PushDef(ls, label.name, address, span), errs |-> <<>>]

(***************************************************************************)
(* Pass 1 of assemble: the words of one statement.  st is the pair of the  *)
(* output and the label table.                                             *)
(***************************************************************************)
\* the closure `param`: pushes the word of p and returns its mode
EmitParam(st, p, ip, span) ==
    LET fixed == p.kind = "Label" /\ p.label.k = "Fixed"
        value == IF p.kind = "Label" /\ p.label.k = "InstructionPointer"
                 THEN ip + p.value
                 ELSE p.value
    IN  [output |-> Append(st.output, value),
         labels |-> IF fixed
                    THEN PushRef(st.labels, p.label.name, Len(st.output), span)
                    ELSE st.labels,
         mode |-> ModeValue(p.mode)]

PushOpcode(st, instr) ==
    [output |-> Append(st.output, opcode(instr)), labels |-> st.labels]

\* a mutant of EmitTernary: the third mode digit in the place of the second
EmitTernaryMisplaced(st, instr, n) ==
    LET i == Len(st.output)
        ip == i + 4
        x == EmitParam(PushOpcode(st, instr), instr.params[1], ip, <<n, 1>>)
        y == EmitParam(x, instr.params[2], ip, <<n, 2>>)
        z == EmitParam(y, instr.params[3], ip, <<n, 3>>)
    IN  [output |-> [z.output EXCEPT ![i + 1] =
                        @ + x.mode * 100 + y.mode * 1000 + z.mode * 1000],
         labels |-> z.labels]

\* Add, Multiply, LessThan, Equal
EmitTernary(st, instr, n) ==
    LET i == Len(st.output)
        ip == i + 4
        x == EmitParam(PushOpcode(st, instr), instr.params[1], ip, <<n, 1>>)
        y == EmitParam(x, instr.params[2], ip, <<n, 2>>)
        z == EmitParam(y, instr.params[3], ip, <<n, 3>>)
    IN  [output |-> [z.output EXCEPT ![i + 1] =
                        @ + x.mode * 100 + y.mode * 1000 + z.mode * 10000],
         labels |-> z.labels]

\* JumpNonZero, JumpZero
EmitBinary(st, instr, n) ==
    LET i == Len(st.output)
        ip == i + 3
        x == EmitParam(PushOpcode(st, instr), instr.params[1], ip, <<n, 1>>)
        y == EmitParam(x, instr.params[2], ip, <<n, 2>>)
    IN  [output |-> [y.output EXCEPT ![i + 1] = @ + x.mode * 100 + y.mode * 1000],
         labels |-> y.labels]

\* Input, Output, AdjustRelativeBase
EmitUnary(st, instr, n) ==
    LET i == Len(st.output)
        ip == i + 2
        x == EmitParam(PushOpcode(st, instr), instr.params[1], ip, <<n, 1>>)
    IN  [output |-> [x.output EXCEPT ![i + 1] = @ + x.mode * 100],
         labels |-> x.labels]

\* one item of a Data
EmitItem(st, d, ip, span) ==
    IF d.kind = "String"
    THEN [output |-> st.output \o d.bytes, labels |-> st.labels]
    ELSE LET w == EmitParam(st, d, ip, span)
         IN  [output |-> w.output, labels |-> w.labels]

RECURSIVE EmitItems(_, _, _, _, _)
EmitItems(st, data, k, ip, n) ==
    IF k > Len(data) THEN st
    ELSE EmitItems(EmitItem(st, data[k], ip, <<n, k>>), data, k + 1, ip, n)

\* Data: `ip` is the address after as many words as the Data has items
EmitData(st, instr, n) ==
    EmitItems(st, instr.params, 1, Len(st.output) + Len(instr.params), n)

\* the match on the instruction
EmitInstr(st, instr, n) ==
    CASE instr.op \in {"Add", "Multiply", "LessThan", "Equal"} ->
            EmitTernary(st, instr, n)
      [] instr.op \in {"JumpNonZero", "JumpZero"} -> EmitBinary(st, instr, n)
      [] instr.op \in {"Input", "Output", "AdjustRelativeBase"} ->
            EmitUnary(st, instr, n)
      [] instr.op = "Data" -> EmitData(st, instr, n)
      [] instr.op = "Halt" -> PushOpcode(st, instr)

(***************************************************************************)
(* Pass 2 of assemble: the labels, in the order of the table.  st is the   *)
(* triple of the output, the errors and the warnings.                      *)
(***************************************************************************)
RECURSIVE Spans(_)
Spans(places) ==
    IF places = <<>> THEN <<>> ELSE <<Head(places).span>> \o Spans(Tail(places))

\* a mutant of Redefinitions: the first definition reported as the others
RECURSIVE RedefinitionsAlike(_, _)
RedefinitionsAlike(defs, j) ==
    IF j > Len(defs) THEN <<>>
    ELSE <<Diagnostic("label redefined here", defs[j].span)>>
         \o RedefinitionsAlike(defs, j + 1)

RECURSIVE Redefinitions(_, _)
Redefinitions(defs, j) ==
    IF j > Len(defs) THEN <<>>
    ELSE <<Diagnostic(IF j = 1 THEN "first definition of label"
                      ELSE "label redefined here", defs[j].span)>>
         \o Redefinitions(defs, j + 1)

RECURSIVE Undefined(_)
Undefined(refs) ==
    IF refs = <<>> THEN <<>>
    ELSE <<Diagnostic("undefined label", Head(refs).span)>> \o Undefined(Tail(refs))

\* a mutant of Patch: the address put in the place of the word
PatchAssign(out, refs, address) ==
    [a \in 1..Len(out) |->
        IF \E j \in 1..Len(refs) : refs[j].at = a - 1 THEN address ELSE out[a]]

\* `output[r] += address` for every reference r
Patch(out, refs, address) ==
    [a \in 1..Len(out) |->
        out[a] + address * Cardinality({j \in 1..Len(refs) : refs[j].at = a - 1})]

\* a mutant of ResolveLabel: the fallback of the older assembler, which
\* appends a zero word for an undefined name and points its references at it
ResolveLabelLegacy(st, e) ==
    CASE Len(e.defs) = 0 ->
            [st EXCEPT !.output = Patch(Append(@, 0), e.refs, Len(@))]
      [] Len(e.defs) = 1 ->
            IF e.refs = <<>> /\ Head(e.name) # "_"
            THEN [st EXCEPT !.warnings =
                     Append(@, Diagnostic("label is never used", e.defs[1].span))]
            ELSE [st EXCEPT !.output = Patch(@, e.refs, e.defs[1].at)]
      [] OTHER ->
            [st EXCEPT !.errors = @ \o Redefinitions(e.defs, 1)]

\* a mutant of ResolveLabel: the names that start with _ warned of as well
ResolveLabelWarnsAll(st, e) ==
    CASE Len(e.defs) = 0 ->
            [st EXCEPT !.errors = @ \o Undefined(e.refs)]
      [] Len(e.defs) = 1 ->
            IF e.refs = <<>>
            THEN [st EXCEPT !.warnings =
                     Append(@, Diagnostic("label is never used", e.defs[1].span))]
            ELSE [st EXCEPT !.output = Patch(@, e.refs, e.defs[1].at)]
      [] OTHER ->
            [st EXCEPT !.errors = @ \o Redefinitions(e.defs, 1)]

ResolveLabel(st, e) ==
    CASE Len(e.defs) = 0 ->
            [st EXCEPT !.errors = @ \o Undefined(e.refs)]
      [] Len(e.defs) = 1 ->
            IF e.refs = <<>> /\ Head(e.name) # "_"
            THEN [st EXCEPT !.warnings =
                     Append(@, Diagnostic("label is never used", e.defs[1].span))]
            ELSE [st EXCEPT !.output = Patch(@, e.refs, e.defs[1].at)]
      [] OTHER ->
            [st EXCEPT !.errors = @ \o Redefinitions(e.defs, 1)]

RECURSIVE ResolveLabels(_, _, _)
ResolveLabels(st, ls, j) ==
    IF j > Len(ls) THEN st
    ELSE ResolveLabels(ResolveLabel(st, ls[j]), ls, j + 1)

(***************************************************************************)
(* The programs assembled: what the parser can hand over.  A label in a    *)
(* parameter is Positional or Immediate, a number has any of the modes.    *)
(***************************************************************************)
LabelA == Fixed(<<"a">>)
LabelB == Fixed(<<"b">>)
LabelT == Fixed(<<"_", "t">>)
LabelRb == Fixed(<<"r", "b">>)

WideParams ==
    {Number("Positional", 5), Number("Immediate", 0 - 5), Number("Relative", 7),
     Label("Positional", LabelA, 1), Label("Immediate", InstructionPointer, 2),
     Label("Positional", Underscore, 3)}

WideInstrs ==
    {Instr(op, <<x, y, z>>) :
        op \in {"Add", "Multiply", "LessThan", "Equal"},
        x \in WideParams, y \in WideParams, z \in WideParams}
    \cup {Instr(op, <<x, y>>) :
        op \in {"JumpNonZero", "JumpZero"}, x \in WideParams, y \in WideParams}
    \cup {Instr(op, <<x>>) :
        op \in {"Input", "Output", "AdjustRelativeBase"}, x \in WideParams}

SmallInstrs ==
    {Instr("Halt", <<>>),
     Instr("Add", <<Label("Positional", LabelA, 0), Number("Relative", 2),
                    Label("Immediate", LabelB, 1)>>),
     Instr("JumpZero", <<Number("Immediate", 0), Label("Immediate", LabelT, 0)>>),
     Instr("Output", <<Label("Positional", InstructionPointer, 0 - 1)>>),
     Instr("Data", <<RawLabel(Underscore, 0), RawLabel(InstructionPointer, 1),
                     RawString(<<97, 98, 99>>)>>),
     Instr("Data", <<RawLabel(LabelA, 2), RawNumber(4)>>),
     Instr("Data", <<RawString(<<104, 105>>), RawLabel(LabelB, 0 - 1)>>)}

SmallStmts ==
    {Stmt(l, i) : l \in {NoLabel, LabelA, LabelB, LabelT}, i \in SmallInstrs}
    \cup {Stmt(l, Instr("Halt", <<>>)) :
            l \in {Underscore, InstructionPointer, LabelRb}}

PrefixStmts ==
    {Stmt(LabelA, Instr("Data", <<RawString(<<104, 105>>), RawNumber(5)>>)),
     Stmt(NoLabel, Instr("Data", <<RawNumber(1)>>))}

SuffixStmts == {Stmt(LabelA, Instr("Halt", <<>>))}

\* programs of three statements: a label defined three times, and labels
\* used, unused and undefined side by side
AsmExamples ==
    {<<Stmt(LabelA, Instr("Halt", <<>>)),
       Stmt(LabelA, Instr("Data", <<RawLabel(LabelA, 0)>>)),
       Stmt(LabelA, Instr("Halt", <<>>))>>,
     <<Stmt(LabelB, Instr("Halt", <<>>)),
       Stmt(LabelA, Instr("Halt", <<>>)),
       Stmt(LabelB, Instr("Output", <<Number("Immediate", 1)>>))>>,
     <<Stmt(LabelA, Instr("Halt", <<>>)),
       Stmt(LabelB, Instr("Halt", <<>>)),
       Stmt(LabelT, Instr("Input", <<Label("Positional", LabelB, 0)>>))>>,
     <<Stmt(LabelA, Instr("Halt", <<>>)),
       Stmt(LabelB, Instr("Data", <<RawString(<<>>)>>)),
       Stmt(Fixed(<<"c">>), Instr("Halt", <<>>))>>}

AsmPrograms ==
    {<<Stmt(NoLabel, w)>> : w \in WideInstrs}
    \cup {<<q, Stmt(NoLabel, w)>> : q \in PrefixStmts, w \in WideInstrs}
    \cup {<<Stmt(LabelB, w), q>> : w \in WideInstrs, q \in SuffixStmts}
    \cup SeqsUpTo(SmallStmts, MaxStmts)
    \cup AsmExamples
    \cup {<<>>}

(***************************************************************************)
(* assemble as a state machine: one step per statement of pass 1, then     *)
(* pass 2 and the result.                                                  *)
(***************************************************************************)
VmIdle == InitOn({<<>>})

AsmInit ==
    /\ VmIdle
    /\ DisIdle
    /\ FrontIdle
    /\ ast \in AsmPrograms
    /\ asmPc = 1
    /\ output = <<>>
    /\ labels = <<>>
    /\ errors = <<>>
    /\ warnings = <<>>
    /\ asmResult = "none"

\* one iteration of `for Stmt { label, instr } in ast.stmts`
AsmStmt ==
    /\ asmResult = "none"
    /\ asmPc <= Len(ast)
    /\ LET stmt == ast[asmPc]
           l == insert_label(labels, stmt.label, Len(output), <<asmPc, 0>>)
           st == EmitInstr([output |-> output, labels |-> l.labels],
                           stmt.instr, asmPc)
       IN  /\ output' = st.output
           /\ labels' = st.labels
           /\ errors' = errors \o l.errs
    /\ asmPc' = asmPc + 1
    /\ UNCHANGED <<ast, warnings, asmResult>>
    /\ UNCHANGED vmVars
    /\ UNCHANGED frontVars
    /\ UNCHANGED disVars

\* `for (label, State { defs, refs }) in labels` and the match on the errors
AsmResolve ==
    /\ asmResult = "none"
    /\ asmPc = Len(ast) + 1
    /\ LET st == ResolveLabels([output |-> output, errors |-> errors,
                                warnings |-> warnings], labels, 1)
       IN  /\ output' = st.output
           /\ errors' = st.errors
           /\ warnings' = st.warnings
           /\ asmResult' = IF st.errors = <<>> THEN "Ok" ELSE "Err"
    /\ UNCHANGED <<ast, asmPc, labels>>
    /\ UNCHANGED vmVars
    /\ UNCHANGED frontVars
    /\ UNCHANGED disVars

AsmNext == AsmStmt \/ AsmResolve

AsmSpec == AsmInit /\ [][AsmNext]_vars

AsmTypeOK ==
    /\ asmPc \in 1..(Len(ast) + 1)
    /\ asmResult \in {"none", "Ok", "Err"}
    /\ asmResult = "Ok" => errors = <<>>
    /\ \A a \in 1..Len(output) : output[a] \in Int

(***************************************************************************)
(* The vocabulary of the properties of the assembler.                      *)
(***************************************************************************)
Assembled == asmResult = "Ok"
IsInstruction(n) == ast[n].instr.op # "Data"

\* the number of words a statement stands for
ItemWords(d) == IF d.kind = "String" THEN Len(d.bytes) ELSE 1
RECURSIVE SumWords(_, _)
SumWords(items, k) ==
    IF k > Len(items) THEN 0 ELSE ItemWords(items[k]) + SumWords(items, k + 1)
StmtWords(n) ==
    IF IsInstruction(n) THEN 1 + Len(ast[n].instr.params)
    ELSE SumWords(ast[n].instr.params, 1)

\* the address of a statement: the words of the statements before it
RECURSIVE StmtAddr(_)
StmtAddr(n) == IF n = 1 THEN 0 ELSE StmtAddr(n - 1) + StmtWords(n - 1)

\* the address of the statement that defines a label
LabelAddr(l) == StmtAddr(CHOOSE n \in 1..Len(ast) : ast[n].label = l)

ModeOf(n, j) ==
    IF j <= Len(ast[n].instr.params) THEN ModeValue(ast[n].instr.params[j].mode)
    ELSE 0

\* the word a parameter of an instruction stands for
ParamWord(n, j) ==
    LET p == ast[n].instr.params[j]
    IN  CASE p.kind = "Number" -> p.value
          [] p.label.k = "Underscore" -> p.value
          [] p.label.k = "InstructionPointer" ->
                StmtAddr(n) + StmtWords(n) + p.value
          [] p.label.k = "Fixed" -> LabelAddr(p.label) + p.value

\* C10: in an assembled program every instruction other than DB, of opcode
\* op and with the modes m1..mk of its k parameters, has at its address
\* the word op + 100*m1 + 1000*m2 + 10000*m3 (0 for a parameter it does
\* not have), then the words of its k parameters in the order of the
\* source, and no more: the next statement, or the end, comes right after.
C10_OpcodeWordAndParams ==
    Assembled =>
        /\ \A n \in 1..Len(ast) :
            IsInstruction(n) =>
                LET a == StmtAddr(n)
                    k == Len(ast[n].instr.params)
                IN  /\ a + k + 1 <= Len(output)
                    /\ output[a + 1] = opcode(ast[n].instr) + 100 * ModeOf(n, 1)
                            + 1000 * ModeOf(n, 2) + 10000 * ModeOf(n, 3)
                    /\ \A j \in 1..k : output[a + j + 1] = ParamWord(n, j)
        /\ ast # <<>> => Len(output) = StmtAddr(Len(ast)) + StmtWords(Len(ast))

\* an assembled instruction of three parameters, not at address 0, whose
\* modes differ and one of whose parameters names a label
C10_Witness ==
    /\ Assembled
    /\ \E n \in 2..Len(ast) :
        /\ Len(ast[n].instr.params) = 3
        /\ ModeOf(n, 1) = 2 /\ ModeOf(n, 2) = 1 /\ ModeOf(n, 3) = 0
        /\ ast[n].instr.params[3].label.k = "Fixed"
        /\ output[StmtAddr(n) + 1] = 1200 + opcode(ast[n].instr)

\* the places of a program where a parameter or an item stands
Places ==
    UNION {{<<n, j>> : j \in 1..Len(ast[n].instr.params)} : n \in 1..Len(ast)}
IsPlace(n, j) == n <= Len(ast) /\ j <= Len(ast[n].instr.params)
ParamAt(n, j) == ast[n].instr.params[j]
RefersTo(n, j) ==
    IsPlace(n, j) /\ ParamAt(n, j).kind = "Label" /\ ParamAt(n, j).label.k = "Fixed"

\* the address of the word (the first word, of a string) of a place
RECURSIVE WordsBefore(_, _)
WordsBefore(items, j) ==
    IF j = 1 THEN 0 ELSE WordsBefore(items, j - 1) + ItemWords(items[j - 1])
SiteAddr(n, j) ==
    IF IsInstruction(n) THEN StmtAddr(n) + j
    ELSE StmtAddr(n) + WordsBefore(ast[n].instr.params, j)

DefSites(l) == {n \in 1..Len(ast) : ast[n].label = l}
RefSites(l) == {pl \in Places : RefersTo(pl[1], pl[2]) /\ ParamAt(pl[1], pl[2]).label = l}

\* C11: in an assembled program, the word at the site of a reference L+o,
\* in an instruction or in a DB, to a label L defined exactly once is the
\* number of words of the statements before the statement of L, plus o,
\* be L defined before the reference or after it.
C11_ReferenceIsAddressPlusOffset ==
    Assembled =>
        \A pl \in Places :
            (RefersTo(pl[1], pl[2])
                /\ Cardinality(DefSites(ParamAt(pl[1], pl[2]).label)) = 1) =>
                LET p == ParamAt(pl[1], pl[2])
                    d == CHOOSE n \in DefSites(p.label) : TRUE
                IN  output[SiteAddr(pl[1], pl[2]) + 1] = StmtAddr(d) + p.value

\* an assembled DB whose reference, after a string, has an offset and names
\* a label defined by a later statement that is not at address 0
C11_Witness ==
    /\ Assembled
    /\ \E pl \in Places :
        /\ RefersTo(pl[1], pl[2])
        /\ ~IsInstruction(pl[1])
        /\ SiteAddr(pl[1], pl[2]) > StmtAddr(pl[1])
        /\ ParamAt(pl[1], pl[2]).value # 0
        /\ \E d \in DefSites(ParamAt(pl[1], pl[2]).label) :
            /\ d > pl[1]
            /\ output[SiteAddr(pl[1], pl[2]) + 1] = StmtAddr(d) + ParamAt(pl[1], pl[2]).value

\* a place that names the instruction pointer
NamesIp(n, j) ==
    IsPlace(n, j) /\ ParamAt(n, j).kind = "Label"
        /\ ParamAt(n, j).label.k = "InstructionPointer"

\* C12: in an assembled program, the word of a parameter or item ip+o is
\* the address of the first word after all the words of its own statement,
\* plus o, whatever the statement: in a DB the words of the strings count,
\* so that DB _, ip+1, "abc" is 0, 6, 97, 98, 99.
C12_IpIsAddressAfterStatement ==
    Assembled =>
        \A pl \in Places :
            NamesIp(pl[1], pl[2]) =>
                output[SiteAddr(pl[1], pl[2]) + 1] =
                    StmtAddr(pl[1]) + StmtWords(pl[1]) + ParamAt(pl[1], pl[2]).value

\* pass 2 is over: assemble has returned
Returned == asmResult # "none"
TotalWords == IF ast = <<>> THEN 0 ELSE StmtAddr(Len(ast)) + StmtWords(Len(ast))
Count(ds, d) == Cardinality({i \in 1..Len(ds) : ds[i] = d})
CountMsg(ds, msg) == Cardinality({i \in 1..Len(ds) : ds[i].msg = msg})

\* the sites of the references to labels that no statement defines
UndefinedRefs ==
    {pl \in Places :
        RefersTo(pl[1], pl[2]) /\ DefSites(ParamAt(pl[1], pl[2]).label) = {}}

\* C13: when a label is referenced and never defined, assembly fails and
\* returns no intcode; the errors hold one `undefined label` for each site
\* of a reference to such a label, at the span of the site, and no other
\* one; no word is appended to the output to stand for the name.
C13_UndefinedLabelIsError ==
    Returned =>
        /\ UndefinedRefs # {} => asmResult = "Err"
        /\ \A pl \in UndefinedRefs :
            Count(errors, Diagnostic("undefined label", pl)) = 1
        /\ CountMsg(errors, "undefined label") = Cardinality(UndefinedRefs)
        /\ Len(output) = TotalWords

\* an assembly that has failed on two references to undefined labels
C13_Witness ==
    /\ asmResult = "Err"
    /\ Cardinality(UndefinedRefs) >= 2
    /\ CountMsg(errors, "undefined label") = Cardinality(UndefinedRefs)
    /\ Len(output) = TotalWords

\* the labels that statements define (rb, reserved, defines nothing)
DefinedLabels ==
    {ast[n].label : n \in {m \in 1..Len(ast) :
        ast[m].label.k = "Fixed" /\ ast[m].label # LabelRb}}

\* the i-th smallest of a set of numbers
Nth(S, i) == CHOOSE x \in S : Cardinality({y \in S : y < x}) = i - 1

\* the diagnostics, in their order, at the definitions of a label
IsDefSpan(l, d) == \E n \in DefSites(l) : d.span = <<n, 0>>
RECURSIVE DiagnosticsAt(_, _)
DiagnosticsAt(ds, l) ==
    IF ds = <<>> THEN <<>>
    ELSE (IF IsDefSpan(l, Head(ds)) THEN <<Head(ds)>> ELSE <<>>)
         \o DiagnosticsAt(Tail(ds), l)

\* C14: when a label is defined n >= 2 times, assembly fails and returns no
\* intcode, and the errors for the label are exactly n: `first definition
\* of label` at the first definition, then `label redefined here` at each
\* later definition, in the order of the source.
C14_RedefinitionDiagnostics ==
    Returned =>
        \A l \in DefinedLabels :
            Cardinality(DefSites(l)) >= 2 =>
                /\ asmResult = "Err"
                /\ DiagnosticsAt(errors, l) =
                    [i \in 1..Cardinality(DefSites(l)) |->
                        Diagnostic(IF i = 1 THEN "first definition of label"
                                   ELSE "label redefined here",
                                   <<Nth(DefSites(l), i), 0>>)]

\* an assembly that has failed on a label defined three times
C14_Witness ==
    /\ asmResult = "Err"
    /\ \E l \in DefinedLabels :
        /\ Cardinality(DefSites(l)) = 3
        /\ Len(DiagnosticsAt(errors, l)) = 3
        /\ CountMsg(errors, "label redefined here") = 2

\* the labels defined once, referenced nowhere, of a name not in _
UnusedLabels ==
    {l \in DefinedLabels :
        Cardinality(DefSites(l)) = 1 /\ RefSites(l) = {} /\ l.name[1] # "_"}

\* C15: when assemble returns, the warnings are one `label is never used`
\* for each label defined once, referenced nowhere and of a name that does
\* not start with _, at its definition, and nothing else; warnings alone
\* do not make it fail: without errors the intcode is returned.
C15_UnusedLabelWarnings ==
    Returned =>
        /\ \A l \in UnusedLabels :
            Count(warnings, Diagnostic("label is never used",
                                       <<Nth(DefSites(l), 1), 0>>)) = 1
        /\ Len(warnings) = Cardinality(UnusedLabels)
        /\ errors = <<>> => asmResult = "Ok"

\* an assembly returned with a warning, for one label out of three defined:
\* the second is referenced, the third starts with _
C15_Witness ==
    /\ asmResult = "Ok"
    /\ Len(warnings) = 1
    /\ Cardinality(DefinedLabels) = 3
    /\ LabelT \in DefinedLabels /\ RefSites(LabelT) = {}
    /\ \E l \in DefinedLabels : RefSites(l) # {}

(***************************************************************************)
(* The lexer (lex.rs).  A text is a sequence of characters, all of them    *)
(* ASCII, so that byte i of the text is character i + 1 of the sequence.   *)
(* A span m..n is the pair <<m, n>>.                                       *)
(***************************************************************************)
AsciiDigits == {"0", "1", "2", "3", "4", "5", "6", "7", "8", "9"}
Lowercase ==
    {"a", "b", "c", "d", "e", "f", "g", "h", "i", "j", "k", "l", "m",
     "n", "o", "p", "q", "r", "s", "t", "u", "v", "w", "x", "y", "z"}
Uppercase ==
    {"A", "B", "C", "D", "E", "F", "G", "H", "I", "J", "K", "L", "M",
     "N", "O", "P", "Q", "R", "S", "T", "U", "V", "W", "X", "Y", "Z"}

\* char::is_ascii_whitespace: space, tab, LF, form feed, CR
AsciiWhitespace == {" ", "\t", "\n", "\f", "\r"}

is_identifier_start(c) == c \in Lowercase \cup Uppercase \cup {"_"}
is_identifier(c) == c \in AsciiDigits \cup Uppercase \cup Lowercase \cup {"_"}

\* what a call of the lexer returns, and where it leaves the iterator
LexOk(tk, m, n, pos) ==
    [ok |-> TRUE, tk |-> tk, span |-> <<m, n>>, msg |-> "", pos |-> pos]
LexFail(msg, m, n, pos) ==
    [ok |-> FALSE, tk |-> "Error", span |-> <<m, n>>, msg |-> msg, pos |-> pos]

\* the predicates handed to lex_token
Satisfies(pred, c) ==
    CASE pred = "not_newline" -> c # "\n"
      [] pred = "is_ascii_whitespace" -> c \in AsciiWhitespace
      [] pred = "is_identifier" -> is_identifier(c)

\* `while self.lex_if(predicate) {}`
RECURSIVE lex_if(_, _, _)
lex_if(src, p, pred) ==
    IF p < Len(src) /\ Satisfies(pred, src[p + 1]) THEN lex_if(src, p + 1, pred)
    ELSE p

lex_token(src, tk, i, p, pred) ==
    LET e == lex_if(src, p, pred) IN LexOk(tk, i, e, e)

\* lex_string, the iterator at p, the last character seen curr
RECURSIVE lex_string(_, _, _, _)
lex_string(src, i, p, curr) ==
    IF p >= Len(src) THEN LexFail("undelimited string", i, Len(src), Len(src))
    ELSE IF src[p + 1] = "\n" THEN LexFail("undelimited string", i, p, p + 1)
    ELSE IF src[p + 1] = "\"" /\ curr # "\\" THEN LexOk("String", i, p + 1, p + 1)
    ELSE lex_string(src, i, p + 1, src[p + 1])

\* Tokens::next
Tokens_next(src, i) ==
    IF i >= Len(src) THEN LexOk("Eof", Len(src), Len(src), Len(src))
    ELSE LET c == src[i + 1]
         IN  CASE c = ":" -> LexOk("Colon", i, i + 1, i + 1)
               [] c = "," -> LexOk("Comma", i, i + 1, i + 1)
               [] c = "#" -> LexOk("Hash", i, i + 1, i + 1)
               [] c = "+" -> LexOk("Plus", i, i + 1, i + 1)
               [] c = "-" -> LexOk("Minus", i, i + 1, i + 1)
               [] c = "\n" -> LexOk("Newline", i, i + 1, i + 1)
               [] c = ";" -> lex_token(src, "Comment", i, i + 1, "not_newline")
               [] c = "\"" -> lex_string(src, i, i + 1, "\"")
               [] c \in AsciiWhitespace \ {"\n"} ->
                     lex_token(src, "Whitespace", i, i + 1, "is_ascii_whitespace")
               [] c \in AsciiDigits ->
                     lex_token(src, "Number", i, i + 1, "is_identifier")
               [] is_identifier_start(c) ->
                     lex_token(src, "Ident", i, i + 1, "is_identifier")
               [] OTHER -> LexFail("unexpected character", i, i + 1, i + 1)

\* Token::is_interesting and the other predicates on tokens
TokenIs(pred, tk) ==
    CASE pred = "is_interesting" -> tk \notin {"Whitespace", "Comment"}
      [] pred = "is_hash" -> tk = "Hash"
      [] pred = "is_eof" -> tk = "Eof"
      [] pred = "is_newline_or_eof" -> tk \in {"Newline", "Eof"}
      [] pred = "is_not_newline_or_eof" -> tk \notin {"Newline", "Eof"}
      [] pred = "is_delimiter" -> tk = "Comma" \/ tk \notin {"Newline", "Eof"}
      [] pred = "is_newline" -> tk = "Newline"

\* Tokens::find
RECURSIVE Tokens_find(_, _, _)
FindOf(src, t, pred) ==
    IF ~t.ok \/ t.tk = "Eof" \/ TokenIs(pred, t.tk) THEN t
    ELSE Tokens_find(src, t.pos, pred)
Tokens_find(src, p, pred) == FindOf(src, Tokens_next(src, p), pred)

(***************************************************************************)
(* The parser (parse.rs).  What a function of the parser returns is a      *)
(* record: ok, the value or the error, and pos, where it leaves the lexer. *)
(***************************************************************************)
POk(val, pos) ==
    [ok |-> TRUE, val |-> val, err |-> Diagnostic("", <<0, 0>>), pos |-> pos]
PErr(msg, span, pos) ==
    [ok |-> FALSE, val |-> <<>>, err |-> Diagnostic(msg, span), pos |-> pos]
\* the error of another result, the lexer where that result left it
PFail(r) == [ok |-> FALSE, val |-> <<>>, err |-> r.err, pos |-> r.pos]

\* Token::human
human(tk) ==
    CASE tk = "Colon" -> "a colon"
      [] tk = "Comma" -> "a comma"
      [] tk = "Hash" -> "a hash"
      [] tk = "Plus" -> "a plus"
      [] tk = "Minus" -> "a minus"
      [] tk = "Newline" -> "a newline"
      [] tk = "Whitespace" -> "whitespace"
      [] tk = "Ident" -> "an identifier"
      [] tk = "Number" -> "a number"
      [] tk = "String" -> "a string"
      [] tk = "Comment" -> "a comment"
      [] tk = "Eof" -> "end of input"

\* Span::as_str and Span::include
as_str(src, span) == SubSeq(src, span[1] + 1, span[2])
include(a, b) == <<a[1], b[2]>>

\* Ident::new(s).is_mnemonic()
is_mnemonic(chars) ==
    \A k \in 1..Len(chars) : chars[k] \in AsciiDigits \cup Uppercase

\* impl From<&str> for Label
LabelFrom(chars) ==
    CASE chars = <<"_">> -> Underscore
      [] chars = <<"i", "p">> -> InstructionPointer
      [] OTHER -> Fixed(chars)

\* Parser::peek: the lexer is cloned, the parser stays where it is
Peeked(t, p) ==
    IF t.ok THEN POk([tk |-> t.tk, span |-> t.span, after |-> t.pos], p)
    ELSE PErr(t.msg, t.span, p)
peek(src, p) == Peeked(Tokens_find(src, p, "is_interesting"), p)

\* Parser::eat: the lexer of the parser moves, on an error too
Eaten(t) ==
    IF t.ok THEN POk([tk |-> t.tk, span |-> t.span, after |-> t.pos], t.pos)
    ELSE PErr(t.msg, t.span, t.pos)
eat(src, p) == Eaten(Tokens_find(src, p, "is_interesting"))

\* Parser::is_next, t what peek returned
IsNextOf(t, pred) == IF t.ok THEN POk(TokenIs(pred, t.val.tk), t.pos) ELSE t
is_next(src, p, pred) == IsNextOf(peek(src, p), pred)

\* Parser::eat_all
RECURSIVE eat_all(_, _, _)
EatAllOf(src, t, want) ==
    IF ~t.ok THEN t
    ELSE IF t.val.tk = want THEN eat_all(src, t.val.after, want)
    ELSE POk(<<>>, t.pos)
eat_all(src, p, want) == EatAllOf(src, peek(src, p), want)

\* Parser::expect
ExpectOf(t, want) ==
    IF ~t.ok THEN t
    ELSE IF t.val.tk = want THEN POk(t.val, t.val.after)
    ELSE PErr("expected " \o human(want) \o ", found " \o human(t.val.tk),
              t.val.span, t.pos)
expect(src, p, want) == ExpectOf(peek(src, p), want)

(***************************************************************************)
(* integer::parse (parse/integer.rs)                                       *)
(***************************************************************************)
DigitChars ==
    <<"0", "1", "2", "3", "4", "5", "6", "7", "8", "9",
      "a", "b", "c", "d", "e", "f", "g", "h", "i", "j", "k", "l", "m",
      "n", "o", "p", "q", "r", "s", "t", "u", "v", "w", "x", "y", "z">>
UpperDigitChars ==
    <<"0", "1", "2", "3", "4", "5", "6", "7", "8", "9",
      "A", "B", "C", "D", "E", "F", "G", "H", "I", "J", "K", "L", "M",
      "N", "O", "P", "Q", "R", "S", "T", "U", "V", "W", "X", "Y", "Z">>

\* char::to_digit: the value of the digit, or -1 for None
to_digit(c, radix) ==
    LET ks == {k \in 1..radix : DigitChars[k] = c \/ UpperDigitChars[k] = c}
    IN  IF ks = {} THEN 0 - 1 ELSE (CHOOSE k \in ks : TRUE) - 1

None == [some |-> FALSE, v |-> 0]
Some(v) == [some |-> TRUE, v |-> v]

\* i64::checked_mul by a radix: the product is formed only when it fits
checked_mul(a, radix) ==
    IF a > IntMax \div radix \/ a < 0 - ((0 - IntMin) \div radix) THEN None
    ELSE Some(a * radix)
\* i64::wrapping_add, which checked_add is not
wrapping_add(a, x) == Some(Wrap(a + x))
checked_add(a, x) == IF InRange(a + x) THEN Some(a + x) ELSE None
checked_sub(a, x) == IF InRange(a - x) THEN Some(a - x) ELSE None

RadixName(radix) ==
    CASE radix = 2 -> "2" [] radix = 8 -> "8" [] radix = 16 -> "16" [] radix = 10 -> "10"

\* the try_fold over the digits after the prefix of i characters: ds[j + 1]
\* is the digit of index j
RECURSIVE FoldDigits(_, _, _, _, _, _, _)
FoldDigits(ds, j, acc, radix, negative, span, i) ==
    IF j >= Len(ds) THEN [ok |-> TRUE, v |-> acc, err |-> Diagnostic("", span)]
    ELSE IF ds[j + 1] = "_" THEN FoldDigits(ds, j + 1, acc, radix, negative, span, i)
    ELSE LET x == to_digit(ds[j + 1], radix)
             m == span[1] + i + j
             range == Diagnostic("base " \o RadixName(radix)
                                 \o " literal out of range for 64-bit integer", span)
             value == checked_mul(acc, radix)
             next == IF negative THEN checked_sub(value.v, x)
                     ELSE checked_add(value.v, x)
         IN  IF x < 0
             THEN [ok |-> FALSE, v |-> 0,
                   err |-> Diagnostic("invalid digit for base " \o RadixName(radix)
                                      \o " literal", <<m, m + 1>>)]
             ELSE IF ~value.some \/ ~next.some
             THEN [ok |-> FALSE, v |-> 0, err |-> range]
             ELSE FoldDigits(ds, j + 1, next.v, radix, negative, span, i)

\* integer::parse
integer_parse(src, span, negative) ==
    LET digits == as_str(src, span)
        prefixed == Len(digits) >= 2 /\ digits[1] = "0"
                        /\ digits[2] \in {"b", "o", "x"}
        i == IF prefixed THEN 2 ELSE 0
        radix == IF ~prefixed THEN 10
                 ELSE CASE digits[2] = "b" -> 2
                        [] digits[2] = "o" -> 8
                        [] digits[2] = "x" -> 16
    IN  FoldDigits(SubSeq(digits, i + 1, Len(digits)), 0, 0, radix, negative, span, i)

(***************************************************************************)
(* string::parse (parse/string.rs).  The value is kept as characters.      *)
(***************************************************************************)
Unescape(esc) ==
    CASE esc = "n" -> "\n"
      [] esc = "r" -> "\r"
      [] esc = "t" -> "\t"
      [] esc = "\\" -> "\\"
      [] esc = "\"" -> "\""

\* the loop over the characters of the token: raw[k] is at byte m + k - 1.
\* An unwrap of None is a panic.
RECURSIVE UnescapeFrom(_, _, _, _)
UnescapeFrom(raw, k, m, value) ==
    IF k > Len(raw) THEN [ok |-> TRUE, v |-> value, err |-> Diagnostic("", <<m, m>>)]
    ELSE IF raw[k] = "\"" THEN UnescapeFrom(raw, k + 1, m, value)
    ELSE IF raw[k] # "\\" THEN UnescapeFrom(raw, k + 1, m, Append(value, raw[k]))
    ELSE IF k + 1 > Len(raw)
    THEN [ok |-> FALSE, v |-> <<>>, err |-> Diagnostic("panic", <<m, m>>)]
    ELSE IF raw[k + 1] \in {"n", "r", "t", "\\", "\""}
    THEN UnescapeFrom(raw, k + 2, m, Append(value, Unescape(raw[k + 1])))
    ELSE IF k + 2 > Len(raw)
    THEN [ok |-> FALSE, v |-> <<>>, err |-> Diagnostic("panic", <<m, m>>)]
    ELSE [ok |-> FALSE, v |-> <<>>,
          err |-> Diagnostic("unknown escape character", <<m + k, m + k + 1>>)]

string_parse(src, span) ==
    LET raw == as_str(src, span)
    IN  IF \E k \in 1..Len(raw) : raw[k] = "\\"
        THEN UnescapeFrom(raw, 1, span[1], <<>>)
        ELSE [ok |-> TRUE, v |-> SubSeq(raw, 2, Len(raw) - 1),
              err |-> Diagnostic("", span)]

(***************************************************************************)
(* The parameters.  A raw parameter is kept with its span, the span of its *)
(* label and the span of its # prefix (<<>> for None).                     *)
(***************************************************************************)
Raw(raw, span, lspan) == [raw |-> raw, span |-> span, lspan |-> lspan, prefix |-> <<>>]

\* a raw parameter of what integer::parse or string::parse returned
NumberOf(v, span, pos) ==
    IF v.ok THEN POk(Raw(RawNumber(v.v), span, <<>>), pos)
    ELSE PErr(v.err.msg, v.err.span, pos)
StringOf(v, span, pos) ==
    IF v.ok THEN POk(Raw(RawString(v.v), span, <<>>), pos)
    ELSE PErr(v.err.msg, v.err.span, pos)
OffsetOf(v, label, span, e) ==
    IF v.ok THEN POk(Raw(RawLabel(label, v.v), include(span, e.val.span), span),
                     e.pos)
    ELSE PErr(v.err.msg, v.err.span, e.pos)

\* the number after a minus: e is what expect(Token::Number) returned
EatNegative(src, span, e) ==
    IF ~e.ok THEN PFail(e)
    ELSE NumberOf(integer_parse(src, e.val.span, TRUE), include(span, e.val.span),
                  e.pos)

\* the offset after a label and a sign
EatOffset(src, label, span, negative, e) ==
    IF ~e.ok THEN PFail(e)
    ELSE OffsetOf(integer_parse(src, e.val.span, negative), label, span, e)

\* the arm Token::Ident of _eat_raw_param: n is what peek returned
EatLabel(src, span, pos, value, n) ==
    IF is_mnemonic(value)
    THEN PErr("expected a parameter, found a mnemonic", span, pos)
    ELSE IF ~n.ok THEN PFail(n)
    ELSE CASE n.val.tk = "Minus" ->
                EatOffset(src, LabelFrom(value), span, TRUE,
                          expect(src, n.val.after, "Number"))
           [] n.val.tk = "Plus" ->
                EatOffset(src, LabelFrom(value), span, FALSE,
                          expect(src, n.val.after, "Number"))
           [] OTHER -> POk(Raw(RawLabel(LabelFrom(value), 0), span, span), pos)

\* Parser::_eat_raw_param: t is what eat returned
EatRawParamOf(src, t) ==
    IF ~t.ok THEN PFail(t)
    ELSE CASE t.val.tk = "String" ->
                StringOf(string_parse(src, t.val.span), t.val.span, t.pos)
           [] t.val.tk = "Minus" ->
                EatNegative(src, t.val.span, expect(src, t.pos, "Number"))
           [] t.val.tk = "Number" ->
                NumberOf(integer_parse(src, t.val.span, FALSE), t.val.span, t.pos)
           [] t.val.tk = "Ident" ->
                EatLabel(src, t.val.span, t.pos, as_str(src, t.val.span),
                         peek(src, t.pos))
           [] OTHER ->
                PErr("expected a parameter, found " \o human(t.val.tk),
                     t.val.span, t.pos)
eat_raw_param_(src, p) == EatRawParamOf(src, eat(src, p))

\* Parser::eat_raw_param: h is what is_next(Token::is_hash) returned
WithPrefix(r, hash) ==
    IF ~r.ok THEN PFail(r)
    ELSE POk([r.val EXCEPT !.span = include(hash, @), !.prefix = hash], r.pos)
EatAfterHash(src, hash) == WithPrefix(eat_raw_param_(src, hash.pos), hash.val.span)
EatPrefixed(src, p, h) ==
    IF ~h.ok THEN PFail(h)
    ELSE IF h.val THEN EatAfterHash(src, expect(src, p, "Hash"))
    ELSE eat_raw_param_(src, p)
eat_raw_param(src, p) == EatPrefixed(src, p, is_next(src, p, "is_hash"))

\* the loop of eat_raw_params: a comma and a parameter, while one is next
RECURSIVE EatMoreRawParams(_, _, _)
EatNextParam(src, params, r) ==
    IF ~r.ok THEN PFail(r)
    ELSE EatMoreRawParams(src, r.pos, Append(params, r.val))
EatComma(src, params, c) ==
    IF ~c.ok THEN PFail(c) ELSE EatNextParam(src, params, eat_raw_param(src, c.pos))
EatDelimiter(src, p, params, d) ==
    IF ~d.ok THEN PFail(d)
    ELSE IF ~d.val THEN POk(params, p)
    ELSE EatComma(src, params, expect(src, p, "Comma"))
EatMoreRawParams(src, p, params) ==
    EatDelimiter(src, p, params, is_next(src, p, "is_delimiter"))

\* Parser::eat_raw_params
EatFirstParam(src, p, n) ==
    IF ~n.ok THEN PFail(n)
    ELSE IF ~n.val THEN POk(<<>>, p)
    ELSE EatNextParam(src, <<>>, eat_raw_param(src, p))
eat_raw_params(src, p) ==
    EatFirstParam(src, p, is_next(src, p, "is_not_newline_or_eof"))

\* a mutant of ToParam: rb taken for the name of a label
ToParamRbLabel(rp) ==
    LET mode == IF rp.prefix = <<>> THEN "Positional" ELSE "Immediate"
    IN  CASE rp.raw.kind = "String" ->
                [ok |-> FALSE, v |-> <<>>,
                 err |-> Diagnostic("string parameter only allowed with DB",
                                    rp.span)]
          [] rp.raw.kind = "Label" ->
                [ok |-> TRUE, v |-> Label(mode, rp.raw.label, rp.raw.value),
                 err |-> Diagnostic("", rp.span)]
          [] rp.raw.kind = "Number" ->
                [ok |-> TRUE, v |-> Number(mode, rp.raw.value),
                 err |-> Diagnostic("", rp.span)]

\* the closure of eat_params: the parameter of a raw parameter, or an error
ToParam(rp) ==
    LET mode == IF rp.prefix = <<>> THEN "Positional" ELSE "Immediate"
    IN  CASE rp.raw.kind = "String" ->
                [ok |-> FALSE, v |-> <<>>,
                 err |-> Diagnostic("string parameter only allowed with DB",
                                    rp.span)]
          [] rp.raw.kind = "Label" /\ rp.raw.label = LabelRb /\ rp.prefix # <<>> ->
                [ok |-> FALSE, v |-> <<>>,
                 err |-> Diagnostic("both immediate and relative mode specified",
                                    rp.span)]
          [] rp.raw.kind = "Label" /\ rp.raw.label = LabelRb /\ rp.prefix = <<>> ->
                [ok |-> TRUE, v |-> Number("Relative", rp.raw.value),
                 err |-> Diagnostic("", rp.span)]
          [] rp.raw.kind = "Label" /\ rp.raw.label # LabelRb ->
                [ok |-> TRUE, v |-> Label(mode, rp.raw.label, rp.raw.value),
                 err |-> Diagnostic("", rp.span)]
          [] rp.raw.kind = "Number" ->
                [ok |-> TRUE, v |-> Number(mode, rp.raw.value),
                 err |-> Diagnostic("", rp.span)]

\* the closure of eat_data_params
ToDataParam(rp) ==
    IF rp.prefix # <<>>
    THEN [ok |-> FALSE, v |-> <<>>,
          err |-> Diagnostic("immediate mode not allowed with DB", rp.prefix)]
    ELSE IF rp.raw.kind = "Label" /\ rp.raw.label = LabelRb
    THEN [ok |-> FALSE, v |-> <<>>,
          err |-> Diagnostic("relative mode not allowed with DB", rp.lspan)]
    ELSE [ok |-> TRUE, v |-> rp.raw, err |-> Diagnostic("", rp.span)]

\* collect::<Result<_>>: the values, or the first error
Collect(rs, pos) ==
    LET bad == {k \in 1..Len(rs) : ~rs[k].ok}
    IN  IF bad = {} THEN POk([k \in 1..Len(rs) |-> rs[k].v], pos)
        ELSE LET k == CHOOSE b \in bad : \A c \in bad : b <= c
             IN  PErr(rs[k].err.msg, rs[k].err.span, pos)

CountName(n) ==
    CASE n = 0 -> "0" [] n = 1 -> "1" [] n = 2 -> "2" [] n = 3 -> "3"
      [] n = 4 -> "4" [] n = 5 -> "5" [] n = 6 -> "6" [] OTHER -> "many"

\* Parser::eat_params, unpacked into a tuple of `arity` parameters
ParamsOf(raw) ==
    IF ~raw.ok THEN PFail(raw)
    ELSE Collect([k \in 1..Len(raw.val) |-> ToParam(raw.val[k])], raw.pos)
Unpack(ps, span, arity) ==
    IF ~ps.ok THEN ps
    ELSE IF Len(ps.val) # arity
    THEN PErr("expected " \o CountName(arity) \o " parameter"
              \o (IF arity # 1 THEN "s" ELSE "") \o ", found "
              \o CountName(Len(ps.val)), span, ps.pos)
    ELSE ps
eat_params(src, p, span, arity) ==
    Unpack(ParamsOf(eat_raw_params(src, p)), span, arity)

\* Parser::eat_data_params
DataParamsOf(raw) ==
    IF ~raw.ok THEN PFail(raw)
    ELSE Collect([k \in 1..Len(raw.val) |-> ToDataParam(raw.val[k])], raw.pos)
eat_data_params(src, p) == DataParamsOf(eat_raw_params(src, p))

\* the mnemonics of eat_instr: the instruction and the number of parameters
\* (the messages about DB are written without their backquotes)
Mnemonics ==
    {<<"ADD", "Add", 3>>, <<"MUL", "Multiply", 3>>, <<"JNZ", "JumpNonZero", 2>>,
     <<"JZ", "JumpZero", 2>>, <<"LT", "LessThan", 3>>, <<"EQ", "Equal", 3>>,
     <<"IN", "Input", 1>>, <<"OUT", "Output", 1>>,
     <<"ARB", "AdjustRelativeBase", 1>>, <<"HLT", "Halt", 0>>, <<"DB", "Data", 0>>}
Mnemonic(name) == CHOOSE m \in Mnemonics : m[1] = name

MnemonicOf(chars) ==
    CASE chars = <<"A", "D", "D">> -> "ADD"
      [] chars = <<"M", "U", "L">> -> "MUL"
      [] chars = <<"J", "N", "Z">> -> "JNZ"
      [] chars = <<"J", "Z">> -> "JZ"
      [] chars = <<"L", "T">> -> "LT"
      [] chars = <<"E", "Q">> -> "EQ"
      [] chars = <<"I", "N">> -> "IN"
      [] chars = <<"O", "U", "T">> -> "OUT"
      [] chars = <<"A", "R", "B">> -> "ARB"
      [] chars = <<"H", "L", "T">> -> "HLT"
      [] chars = <<"D", "B">> -> "DB"
      [] OTHER -> "unknown"

\* Parser::eat_instr: e is what expect(Token::Ident) returned, ps what
\* eat_params or eat_data_params returned, n what the last peek returned
InstrOf(name, ps, n) ==
    IF ~n.ok THEN PFail(n) ELSE POk(Instr(Mnemonic(name)[2], ps.val), ps.pos)
EatInstrEnd(src, name, ps) ==
    IF ~ps.ok THEN PFail(ps) ELSE InstrOf(name, ps, peek(src, ps.pos))
EatOperation(src, e, text, name) ==
    IF name = "unknown"
    THEN PErr(IF is_mnemonic(text) THEN "unknown operation mnemonic"
              ELSE "expected a mnemonic, found an identifier", e.val.span, e.pos)
    ELSE EatInstrEnd(src, name,
                     IF name = "DB" THEN eat_data_params(src, e.pos)
                     ELSE eat_params(src, e.pos, e.val.span, Mnemonic(name)[3]))
EatMnemonic(src, e) ==
    IF ~e.ok THEN PFail(e)
    ELSE EatOperation(src, e, as_str(src, e.val.span),
                      MnemonicOf(as_str(src, e.val.span)))
eat_instr(src, p) == EatMnemonic(src, expect(src, p, "Ident"))

\* Parser::eat_stmt: val is <<>> for None, <<stmt>> for Some(stmt).  Each
\* operator takes what the call before it returned.
StmtOf(label, instr, end) ==
    IF ~end.ok THEN PFail(end) ELSE POk(<<Stmt(label, instr.val)>>, end.pos)
EatNewline(src, label, instr, last) ==
    IF ~last.ok THEN PFail(last)
    ELSE IF last.val THEN POk(<<Stmt(label, instr.val)>>, instr.pos)
    ELSE StmtOf(label, instr, expect(src, instr.pos, "Newline"))
EatLineEnd(src, label, instr) ==
    IF ~instr.ok THEN PFail(instr)
    ELSE EatNewline(src, label, instr, is_next(src, instr.pos, "is_eof"))
EatBody(src, label, nl) ==
    IF ~nl.ok THEN PFail(nl) ELSE EatLineEnd(src, label, eat_instr(src, nl.pos))
EatColon(src, label, colon) ==
    IF ~colon.ok THEN PFail(colon)
    ELSE EatBody(src, label, eat_all(src, colon.pos, "Newline"))
EatLabelDef(src, t) ==
    IF ~t.ok THEN PFail(t)
    ELSE IF t.val.tk = "Ident" /\ ~is_mnemonic(as_str(src, t.val.span))
    THEN EatColon(src, LabelFrom(as_str(src, t.val.span)),
                  expect(src, t.val.after, "Colon"))
    ELSE EatBody(src, NoLabel, eat_all(src, t.pos, "Newline"))
EatEof(src, nl, eof) ==
    IF ~eof.ok THEN PFail(eof)
    ELSE IF eof.val THEN POk(<<>>, nl.pos)
    ELSE EatLabelDef(src, peek(src, nl.pos))
EatBlank(src, nl) ==
    IF ~nl.ok THEN PFail(nl) ELSE EatEof(src, nl, is_next(src, nl.pos, "is_eof"))
eat_stmt(src, p) == EatBlank(src, eat_all(src, p, "Newline"))

\* the recovery of eat_program: tokens are eaten, errors dropped, until a
\* newline or the end of input is next
RECURSIVE Recover(_, _)
RecoverOf(src, p, n, e) == IF n.ok /\ n.val THEN p ELSE Recover(src, e.pos)
\* a mutant of Recover: the loop of the recovery is never entered
RecoverNothing(src, p) == p
Recover(src, p) == RecoverOf(src, p, is_next(src, p, "is_newline_or_eof"), eat(src, p))

(***************************************************************************)
(* The texts read: at most MaxLines lines, each out of SourceLines, with   *)
(* an LF between two lines; and the texts of one number, see below.        *)
(***************************************************************************)
MaxLines == 2

\* the lines, in the order:
\*   (the empty line)
\*   HLT
\*   HLT 
\*   a: HLT
\*   a:
\*   <tab>OUT #x+1 ; c
\*   IN rb-2
\*   IN #rb
\*   ARB rb
\*   ADD a, #2, rb+1
\*   JZ ip, #_
\*   DB #1
\*   DB rb
\*   DB x-1, "a\"b", 7
\*   DB "a\\"
\*   DB "abc
\*   XYZ
\*   ADD @
\*   DB "a\q"
\*   IN 1 2
\*   DB -0x1F, 0b1_0
SourceLines ==
    {<<>>,
     <<"H", "L", "T">>,
     <<"H", "L", "T", " ">>,
     <<"a", ":", " ", "H", "L", "T">>,
     <<"a", ":">>,
     <<"\t", "O", "U", "T", " ", "#", "x", "+", "1", " ", ";", " ", "c">>,
     <<"I", "N", " ", "r", "b", "-", "2">>,
     <<"I", "N", " ", "#", "r", "b">>,
     <<"A", "R", "B", " ", "r", "b">>,
     <<"A", "D", "D", " ", "a", ",", " ", "#", "2", ",", " ", "r", "b", "+",
       "1">>,
     <<"J", "Z", " ", "i", "p", ",", " ", "#", "_">>,
     <<"D", "B", " ", "#", "1">>,
     <<"D", "B", " ", "r", "b">>,
     <<"D", "B", " ", "x", "-", "1", ",", " ", "\"", "a", "\\", "\"", "b",
       "\"", ",", " ", "7">>,
     <<"D", "B", " ", "\"", "a", "\\", "\\", "\"">>,
     <<"D", "B", " ", "\"", "a", "b", "c">>,
     <<"X", "Y", "Z">>,
     <<"A", "D", "D", " ", "@">>,
     <<"D", "B", " ", "\"", "a", "\\", "q", "\"">>,
     <<"I", "N", " ", "1", " ", "2">>,
     <<"D", "B", " ", "-", "0", "x", "1", "F", ",", " ", "0", "b", "1", "_",
       "0">>}

RECURSIVE Join(_)
Join(ls) ==
    IF Len(ls) = 1 THEN ls[1] ELSE ls[1] \o <<"\n">> \o Join(Tail(ls))

Sources == {Join(ls) : ls \in SeqsUpTo(SourceLines, MaxLines)}

\* the texts of one number: DB, a sign or none, and a literal that stands
\* for a value around the ends of the range, in each radix and style
Radixes == {2, 8, 10, 16}
LiteralValues ==
    {0, 9, IntMax - 1, IntMax, IntMax + 1, IntMax + 2, Modulus - 1, Modulus,
     Modulus + 9}
Styles == {"plain", "upper", "underscores", "zeros"}

RadixPrefix(radix) ==
    CASE radix = 2 -> <<"0", "b">>
      [] radix = 8 -> <<"0", "o">>
      [] radix = 16 -> <<"0", "x">>
      [] radix = 10 -> <<>>

\* the digits of v >= 0, the most significant first
RECURSIVE ToDigits(_, _, _)
ToDigits(v, radix, chars) ==
    IF v < radix THEN <<chars[v + 1]>>
    ELSE Append(ToDigits(v \div radix, radix, chars), chars[(v % radix) + 1])

Literal(v, radix, style) ==
    LET ds == ToDigits(v, radix, IF style = "upper" THEN UpperDigitChars
                                 ELSE DigitChars)
    IN  RadixPrefix(radix) \o
        CASE style \in {"plain", "upper"} -> ds
          [] style = "underscores" -> <<Head(ds), "_">> \o Tail(ds) \o <<"_">>
          [] style = "zeros" -> <<"0", "0">> \o ds

NumberText(negative, lit) ==
    <<"D", "B", " ">> \o (IF negative THEN <<"-">> ELSE <<>>) \o lit

NumberTexts ==
    {NumberText(neg, Literal(v, radix, style)) :
        neg \in BOOLEAN, v \in LiteralValues, radix \in Radixes, style \in Styles}

\* eat_program as a function: the number of errors it collects from p on
RECURSIVE ErrorCount(_, _, _)
ErrorCountOf(src, r, n) ==
    IF r.ok /\ r.val = <<>> THEN n
    ELSE IF r.ok THEN ErrorCount(src, r.pos, n)
    ELSE ErrorCount(src, Recover(src, r.pos), n + 1)
ErrorCount(src, p, n) == ErrorCountOf(src, eat_stmt(src, p), n)

\* the texts of parameters: a parameter is a # or none, and a body; what
\* the body is: a number, a label with an offset, or rb with an offset
Body(text, kind, label, value) ==
    [text |-> text, kind |-> kind, label |-> label, value |-> value]
Bodies ==
    {Body(<<"7">>, "Number", NoLabel, 7),
     Body(<<"-", "7">>, "Number", NoLabel, 0 - 7),
     Body(<<"x">>, "Label", Fixed(<<"x">>), 0),
     Body(<<"x", "+", "1">>, "Label", Fixed(<<"x">>), 1),
     Body(<<"r", "b", "x">>, "Label", Fixed(<<"r", "b", "x">>), 0),
     Body(<<"i", "p", "-", "1">>, "Label", InstructionPointer, 0 - 1),
     Body(<<"_">>, "Label", Underscore, 0),
     Body(<<"r", "b">>, "Rb", NoLabel, 0),
     Body(<<"r", "b", "+", "3">>, "Rb", NoLabel, 3),
     Body(<<"r", "b", "-", "3">>, "Rb", NoLabel, 0 - 3)}

ParamText(hash, b) == (IF hash THEN <<"#">> ELSE <<>>) \o b.text
JumpText(h1, b1, h2, b2) ==
    <<"J", "Z", " ">> \o ParamText(h1, b1) \o <<",", " ">> \o ParamText(h2, b2)
DataText(h, b) == <<"D", "B", " ">> \o ParamText(h, b)

ParamTexts ==
    {JumpText(h1, b1, h2, b2) :
        h1 \in BOOLEAN, b1 \in Bodies, h2 \in BOOLEAN, b2 \in Bodies}
    \cup {DataText(h, b) : h \in BOOLEAN, b \in Bodies}

(***************************************************************************)
(* The lexer as a state machine: the calls of Tokens::next on a text,      *)
(* until the end of input is returned.                                     *)
(***************************************************************************)
LexInit ==
    /\ VmIdle
    /\ DisIdle
    /\ AsmIdle
    /\ source \in Sources
    /\ lexPos = 0
    /\ toks = <<>>
    /\ lexErr = <<>>
    /\ cursor = 0
    /\ stmts = <<>>
    /\ perrors = <<>>
    /\ parsed = "none"

\* one call of Tokens::next
LexNext ==
    /\ IF toks = <<>> THEN TRUE ELSE toks[Len(toks)].tk # "Eof"
    /\ \E t \in {Tokens_next(source, lexPos)} :
        /\ toks' = Append(toks, [tk |-> t.tk, span |-> t.span])
        /\ lexErr' = IF t.ok THEN lexErr
                     ELSE Append(lexErr, Diagnostic(t.msg, t.span))
        /\ lexPos' = t.pos
    /\ UNCHANGED <<source, cursor, stmts, perrors, parsed>>
    /\ UNCHANGED vmVars
    /\ UNCHANGED asmVars
    /\ UNCHANGED disVars

LexSpec == LexInit /\ [][LexNext]_vars

(***************************************************************************)
(* eat_program as a state machine: one step per call of eat_stmt that      *)
(* yields a statement or an error, and one for the call that yields None   *)
(* and the result.                                                         *)
(***************************************************************************)
ParseInit ==
    /\ VmIdle
    /\ DisIdle
    /\ AsmIdle
    /\ source \in Sources \cup NumberTexts \cup ParamTexts
    /\ lexPos = 0
    /\ toks = <<>>
    /\ lexErr = <<>>
    /\ cursor = 0
    /\ stmts = <<>>
    /\ perrors = <<>>
    /\ parsed = "none"

\* an iteration of `while let Some(stmt) = self.eat_stmt().transpose()`
EatStmt ==
    /\ parsed = "none"
    /\ \E r \in {eat_stmt(source, cursor)} :
        /\ ~(r.ok /\ r.val = <<>>)
        /\ stmts' = IF r.ok THEN stmts \o r.val ELSE stmts
        /\ perrors' = IF r.ok THEN perrors ELSE Append(perrors, r.err)
        /\ cursor' = IF r.ok THEN r.pos ELSE Recover(source, r.pos)
    /\ UNCHANGED <<source, lexPos, toks, lexErr, parsed>>
    /\ UNCHANGED vmVars
    /\ UNCHANGED asmVars
    /\ UNCHANGED disVars

\* the call of eat_stmt that yields None, and the match on the errors
EatProgramReturn ==
    /\ parsed = "none"
    /\ \E r \in {eat_stmt(source, cursor)} :
        /\ r.ok /\ r.val = <<>>
        /\ cursor' = r.pos
    /\ parsed' = IF perrors = <<>> THEN "Ok" ELSE "Err"
    /\ UNCHANGED <<source, lexPos, toks, lexErr, stmts, perrors>>
    /\ UNCHANGED vmVars
    /\ UNCHANGED asmVars
    /\ UNCHANGED disVars

ParseNext == EatStmt \/ EatProgramReturn

ParseSpec == ParseInit /\ [][ParseNext]_vars

(***************************************************************************)
(* The vocabulary of the properties of the lexer and the parser.           *)
(***************************************************************************)
\* eat_program has returned
ParseReturned == parsed # "none"

\* the parameter and the DB item that the text of a parameter stands for
ExpectedParam(hash, b) ==
    LET mode == IF hash THEN "Immediate" ELSE "Positional"
    IN  CASE b.kind = "Number" -> Number(mode, b.value)
          [] b.kind = "Label" -> Label(mode, b.label, b.value)
          [] b.kind = "Rb" -> Number("Relative", b.value)
ExpectedItem(b) ==
    IF b.kind = "Number" THEN RawNumber(b.value) ELSE RawLabel(b.label, b.value)

\* the parameters and items, of the statements parsed, that name a label rb
RbReferences ==
    {<<n, j>> \in UNION {{<<n, j>> : j \in 1..Len(stmts[n].instr.params)} :
                            n \in 1..Len(stmts)} :
        /\ stmts[n].instr.params[j].kind = "Label"
        /\ stmts[n].instr.params[j].label = LabelRb}

Rejected(msg) ==
    parsed = "Err" /\ stmts = <<>> /\ Len(perrors) = 1 /\ perrors[1].msg = msg

\* C16: a parameter of an instruction with # before it is Immediate and one
\* without is Positional, but rb, rb+o and rb-o without # are the number o
\* in Relative mode, and never a reference to a label rb; #rb is rejected
\* with `both immediate and relative mode specified`; in a DB an item
\* with # and an item rb are rejected.
C16_ModeDerivation ==
    ParseReturned =>
        /\ RbReferences = {}
        /\ \A h1 \in BOOLEAN, b1 \in Bodies, h2 \in BOOLEAN, b2 \in Bodies :
            source = JumpText(h1, b1, h2, b2) =>
                IF (h1 /\ b1.kind = "Rb") \/ (h2 /\ b2.kind = "Rb")
                THEN Rejected("both immediate and relative mode specified")
                ELSE /\ parsed = "Ok"
                     /\ stmts = <<Stmt(NoLabel, Instr("JumpZero",
                            <<ExpectedParam(h1, b1), ExpectedParam(h2, b2)>>))>>
        /\ \A h \in BOOLEAN, b \in Bodies :
            source = DataText(h, b) =>
                IF h THEN Rejected("immediate mode not allowed with DB")
                ELSE IF b.kind = "Rb"
                THEN Rejected("relative mode not allowed with DB")
                ELSE /\ parsed = "Ok"
                     /\ stmts = <<Stmt(NoLabel, Instr("Data", <<ExpectedItem(b)>>))>>

\* a jump parsed whose first parameter is an Immediate label with an offset
\* and whose second is rb-3, the number -3 in Relative mode
C16_Witness ==
    /\ parsed = "Ok"
    /\ source = <<"J", "Z", " ", "#", "x", "+", "1", ",", " ", "r", "b", "-", "3">>
    /\ stmts[1].instr.params =
        <<Label("Immediate", Fixed(<<"x">>), 1), Number("Relative", 0 - 3)>>

\* the lines of a text (an LF is in no string and in no comment)
RECURSIVE SplitLines(_, _)
SplitLines(text, line) ==
    IF text = <<>> THEN <<line>>
    ELSE IF Head(text) = "\n" THEN <<line>> \o SplitLines(Tail(text), <<>>)
    ELSE SplitLines(Tail(text), Append(line, Head(text)))
LinesOf(text) == SplitLines(text, <<>>)

\* a line with an error: read alone, it yields an error
Erroneous(line) == ErrorCount(line, 0, 0) > 0
\* a line that is a label alone: an error alone, none once a statement follows
LabelAlone(line) ==
    Erroneous(line) /\ ErrorCount(line \o <<"\n", "H", "L", "T">>, 0, 0) = 0
OneStatementPerLine(text) ==
    \A i \in 1..Len(LinesOf(text)) : ~LabelAlone(LinesOf(text)[i])
ErroneousLines(text) ==
    {i \in 1..Len(LinesOf(text)) : Erroneous(LinesOf(text)[i])}

\* C17: eat_program reports every line with an error: on a text of one
\* statement per line of which N lines have an error, it returns at least
\* N errors; the error of a line does not hide the error of a later line.
C17_EveryErroneousLineReported ==
    (ParseReturned /\ OneStatementPerLine(source)) =>
        Len(perrors) >= Cardinality(ErroneousLines(source))

\* the characters of a token, and the tokens that are not errors
TextOf(t) == as_str(source, t.span)
TokensOf(kind) == {k \in 1..Len(toks) : toks[k].tk = kind}

\* C18: a Whitespace token is made of tabs and spaces only, never of an LF;
\* every LF read outside a string and a comment is a Newline token of its
\* own, so that spaces and then an LF after a statement still end in a
\* Newline token.
C18_NewlineIsItsOwnToken ==
    /\ \A k \in TokensOf("Whitespace") :
        \A j \in 1..Len(TextOf(toks[k])) : TextOf(toks[k])[j] \in {" ", "\t"}
    /\ lexErr = <<>> =>
        \A q \in 0..(lexPos - 1) :
            source[q + 1] = "\n" =>
                \E k \in TokensOf("Newline") : toks[k].span = <<q, q + 1>>

\* the index of the first unescaped double quote at or after p, where each
\* backslash escapes the one character after it; -1 when the line or the
\* text ends first
RECURSIVE ClosingQuote(_, _)
ClosingQuote(text, p) ==
    IF p >= Len(text) THEN 0 - 1
    ELSE IF text[p + 1] = "\\" THEN ClosingQuote(text, p + 2)
    ELSE IF text[p + 1] = "\"" THEN p
    ELSE IF text[p + 1] = "\n" THEN 0 - 1
    ELSE ClosingQuote(text, p + 1)

\* the tokens, errors included, that begin at a double quote
StringStarts ==
    {k \in 1..Len(toks) :
        IF toks[k].span[1] < Len(source)
        THEN source[toks[k].span[1] + 1] = "\""
        ELSE FALSE}

\* C19: a token that begins at a double quote is a String token ending just
\* after the first unescaped double quote, a double quote after an even
\* number of backslashes included; it is an error only when the line has no
\* unescaped double quote.
C19_StringEndsAtFirstUnescapedQuote ==
    \A k \in StringStarts :
        LET close == ClosingQuote(source, toks[k].span[1] + 1)
        IN  IF close >= 0
            THEN /\ toks[k].tk = "String"
                 /\ toks[k].span = <<toks[k].span[1], close + 1>>
            ELSE toks[k].tk = "Error"

\* the message of a literal whose value is not a 64-bit integer
OutOfRange(radix) ==
    "base " \o RadixName(radix) \o " literal out of range for 64-bit integer"

\* C20: a literal of any radix and spelling (prefix, upper case digits,
\* underscores, leading zeros) with or without a minus sign parses to its
\* exact signed value when that value is in the range of the word, the least
\* value included, and is an out-of-range error otherwise; never a wrapped
\* value.
C20_IntegerLiteralsAreExact ==
    ParseReturned =>
        \A neg \in BOOLEAN, v \in LiteralValues, radix \in Radixes, style \in Styles :
            source = NumberText(neg, Literal(v, radix, style)) =>
                LET value == IF neg THEN 0 - v ELSE v
                IN  IF InRange(value)
                    THEN /\ parsed = "Ok"
                         /\ stmts = <<Stmt(NoLabel,
                                Instr("Data", <<RawNumber(value)>>))>>
                    ELSE Rejected(OutOfRange(radix))

\* the least value of the word, written in base 16 after a minus sign, parsed
C20_Witness ==
    /\ parsed = "Ok"
    /\ source = NumberText(TRUE, Literal(IntMax + 1, 16, "plain"))
    /\ stmts[1].instr.params = <<RawNumber(IntMin)>>

\* C28: when an iteration of next() ends in UnknownMode or UnknownOpcode, the
\* memory, ip, the relative base and the input queue are as they were before
\* the failing instruction began: no fed value is consumed by an Input that
\* fails.
C28_FailingStepLeavesVm ==
    [][(spin' # spin /\ result'.kind \in {"UnknownMode", "UnknownOpcode"})
       => /\ mem' = mem
          /\ ptr' = ptr
          /\ relative_base' = relative_base
          /\ input' = input]_vars

(***************************************************************************)
(* The disassembler: the program image (disassemble/src/program.rs).  A    *)
(* failed operation is a panic: the image stays as it is.                  *)
(***************************************************************************)
\* bound of the number of runs handed to the marker
MaxRuns == 2

\* enum Mark, and the None of a slot without a mark
NoMark == [kind |-> "None"]
OpcodeMark(op) == [kind |-> "Opcode", op |-> op]
ParamMark(pm) == [kind |-> "Param", param |-> pm]
StringMark == [kind |-> "String"]
DataMark == [kind |-> "Data"]

\* Mention::new
Mention(purpose, referrer) == [purpose |-> purpose, referrer |-> referrer]

\* Program::new: one slot for each word
Slot(raw) == [raw |-> raw, mark |-> NoMark, mentions |-> {}, label |-> NoLabel]
Program_new(intcode) == [a \in 1..Len(intcode) |-> Slot(intcode[a])]

\* Program::original
original(prog) == [a \in 1..Len(prog) |-> prog[a].raw]

\* Mode::from_value, for the values it has a mode for
Mode_from_value(v) ==
    CASE v = 0 -> "Positional"
      [] v = 1 -> "Immediate"
      [] v = 2 -> "Relative"

\* Opcode::from_value, Opcode::value and Opcode::params
OpcodeValues == {1, 2, 3, 4, 5, 6, 7, 8, 9, 99}
Opcode_from_value(v) ==
    CASE v = 1 -> "Add"
      [] v = 2 -> "Multiply"
      [] v = 3 -> "Input"
      [] v = 4 -> "Output"
      [] v = 5 -> "JumpNonZero"
      [] v = 6 -> "JumpZero"
      [] v = 7 -> "LessThan"
      [] v = 8 -> "Equal"
      [] v = 9 -> "AdjustRelativeBase"
      [] v = 99 -> "Halt"
Opcode_value(op) == CHOOSE v \in OpcodeValues : Opcode_from_value(v) = op
Opcode_params(op) ==
    CASE op \in {"Add", "Multiply", "LessThan", "Equal"} -> 3
      [] op \in {"JumpNonZero", "JumpZero"} -> 2
      [] op \in {"Input", "Output", "AdjustRelativeBase"} -> 1
      [] op = "Halt" -> 0

\* the outcome of an operation that may panic
Marked(prog) == [ok |-> TRUE, prog |-> prog]
MarkPanic(prog) == [ok |-> FALSE, prog |-> prog]

\* Program::mention
mention(prog, addr, m) ==
    IF addr >= Len(prog) THEN prog
    ELSE [prog EXCEPT ![addr + 1].mentions = @ \cup {m}]

\* Program::mark
mark(prog, addr, mk) ==
    IF addr >= Len(prog) THEN MarkPanic(prog)
    ELSE IF prog[addr + 1].mark = mk THEN Marked(prog)
    ELSE IF prog[addr + 1].mark = NoMark
    THEN Marked([prog EXCEPT ![addr + 1].mark = mk])
    ELSE MarkPanic(prog)

\* a mutant of mark_opcode: the opcode executed last stands
mark_opcode_last(prog, addr, op) ==
    IF addr >= Len(prog) THEN MarkPanic(prog)
    ELSE IF prog[addr + 1].mark.kind \in {"Opcode", "None"}
    THEN Marked([prog EXCEPT ![addr + 1].mark = OpcodeMark(op)])
    ELSE MarkPanic(prog)

\* Program::mark_opcode
mark_opcode(prog, addr, op) ==
    IF addr >= Len(prog) THEN MarkPanic(prog)
    ELSE IF prog[addr + 1].mark = OpcodeMark(op) THEN Marked(prog)
    ELSE IF prog[addr + 1].mark.kind = "Opcode"
    THEN Marked([prog EXCEPT ![addr + 1].mark = OpcodeMark("Mutable")])
    ELSE IF prog[addr + 1].mark = NoMark
    THEN IF RustRem(prog[addr + 1].raw, 100) # Opcode_value(op)
         THEN Marked([prog EXCEPT ![addr + 1].mark = OpcodeMark("Mutable")])
         ELSE Marked([prog EXCEPT ![addr + 1].mark = OpcodeMark(op)])
    ELSE MarkPanic(prog)

\* Program::mark_param
mark_param(prog, addr, mode) ==
    IF addr >= Len(prog) THEN MarkPanic(prog)
    ELSE mark(prog, addr, ParamMark(Number(mode, prog[addr + 1].raw)))

(***************************************************************************)
(* The dynamic marker's computer (disassemble/src/dynamically.rs), one     *)
(* iteration of the loop of its next() at a time.  A value of a parameter  *)
(* carries the image as the marks and mentions made so far have left it;   *)
(* its tag is "Ok", the error returned, "Panic" for an overflow in a build *)
(* with overflow checks, or "MarkPanic" for the panic of a mark.           *)
(***************************************************************************)
Traced(tag, v, prog) == [tag |-> tag, v |-> v, prog |-> prog]

\* the end of param_ptr in the modes Positional and Relative: the cast and
\* the mention
TracedTarget(prog, sum, purpose, q) ==
    IF sum.tag # "Ok" THEN Traced(sum.tag, sum.v, prog)
    ELSE IF sum.v < 0 THEN Traced("BadConversion", sum.v, prog)
    ELSE Traced("Ok", sum.v, mention(prog, sum.v, Mention(purpose, q)))

\* param_ptr after `self.prog.mark_param(ptr, mode)`
TracedMode(r, m, q, rb, checks, purpose, digit) ==
    IF ~r.ok THEN Traced("MarkPanic", 0, r.prog)
    ELSE IF digit = 1 THEN Traced("Ok", q, r.prog)
    ELSE TracedTarget(r.prog,
                      IF digit = 0 THEN Ok(mem_get(m, q))
                      ELSE Arith(rb + mem_get(m, q), checks),
                      purpose, q)

\* Computer::param_ptr
traced_param_ptr(prog, m, p, rb, checks, i, purpose) ==
    IF mode_digit(m, p, i) \notin {0, 1, 2}
    THEN Traced("UnknownMode", mode_digit(m, p, i), prog)
    ELSE TracedMode(mark_param(prog, p + i, Mode_from_value(mode_digit(m, p, i))),
                    m, p + i, rb, checks, purpose, mode_digit(m, p, i))

\* Computer::param
TracedRead(a, m) ==
    IF a.tag = "Ok" THEN Traced("Ok", mem_get(m, a.v), a.prog) ELSE a
traced_param(prog, m, p, rb, checks, i) ==
    TracedRead(traced_param_ptr(prog, m, p, rb, checks, i, "Read"), m)

\* Computer::jump_param
TracedJump(x, q) ==
    IF x.tag # "Ok" THEN x
    ELSE IF x.v < 0 THEN Traced("BadConversion", x.v, x.prog)
    ELSE Traced("Ok", x.v, mention(x.prog, x.v, Mention("Jump", q)))
jump_param(prog, m, p, rb, checks, i) ==
    TracedJump(traced_param(prog, m, p, rb, checks, i), p + i)

\* what an iteration leaves: the outcome of the VM, and the image
TracedOutcome(kind, val, m, p, rb, inp, prog) ==
    [kind |-> kind, val |-> val, mem |-> m, ptr |-> p, rb |-> rb, input |-> inp,
     prog |-> prog]
TracedFail(r, m, p, rb, inp) == TracedOutcome(r.tag, r.v, m, p, rb, inp, r.prog)

\* Add, Multiply, LessThan, Equal: the two reads, the value, then the place
TracedStorePlace(v, z, m, p, rb, inp) ==
    IF z.tag # "Ok" THEN TracedFail(z, m, p, rb, inp)
    ELSE TracedOutcome("Running", 0, mem_set(m, z.v, v), p + 4, rb, inp, z.prog)
TracedStoreValue(r, prog, m, p, rb, inp, checks) ==
    IF r.tag # "Ok" THEN TracedOutcome(r.tag, r.v, m, p, rb, inp, prog)
    ELSE TracedStorePlace(r.v, traced_param_ptr(prog, m, p, rb, checks, 3, "Write"),
                          m, p, rb, inp)
TracedStoreSecond(op, x, y, m, p, rb, inp, checks) ==
    IF y.tag # "Ok" THEN TracedFail(y, m, p, rb, inp)
    ELSE TracedStoreValue(Compute(op, x.v, y.v, checks), y.prog, m, p, rb, inp,
                          checks)
TracedStoreFirst(op, x, m, p, rb, inp, checks) ==
    IF x.tag # "Ok" THEN TracedFail(x, m, p, rb, inp)
    ELSE TracedStoreSecond(op, x, traced_param(x.prog, m, p, rb, checks, 2),
                           m, p, rb, inp, checks)
TracedStore(op, prog, m, p, rb, inp, checks) ==
    TracedStoreFirst(op, traced_param(prog, m, p, rb, checks, 1), m, p, rb, inp,
                     checks)

\* Input: the value is popped, then the place is resolved
TracedInputPlace(z, m, p, rb, inp) ==
    IF z.tag # "Ok" THEN TracedFail(z, m, p, rb, Tail(inp))
    ELSE TracedOutcome("Running", 0, mem_set(m, z.v, Head(inp)), p + 2, rb,
                       Tail(inp), z.prog)
TracedInput(prog, m, p, rb, inp, checks) ==
    IF inp # <<>>
    THEN TracedInputPlace(traced_param_ptr(prog, m, p, rb, checks, 1, "Write"),
                          m, p, rb, inp)
    ELSE TracedOutcome("Waiting", 0, m, p, rb, inp, prog)

\* Output
TracedOutputOf(x, m, p, rb, inp) ==
    IF x.tag # "Ok" THEN TracedFail(x, m, p, rb, inp)
    ELSE TracedOutcome("Yielded", x.v, m, p + 2, rb, inp, x.prog)
TracedOutput(prog, m, p, rb, inp, checks) ==
    TracedOutputOf(traced_param(prog, m, p, rb, checks, 1), m, p, rb, inp)

\* JumpNonZero, JumpZero: the target is resolved, then the value tested
TracedJumpTest(op, t, x, m, p, rb, inp) ==
    IF x.tag # "Ok" THEN TracedFail(x, m, p, rb, inp)
    ELSE IF (op = 5 /\ x.v # 0) \/ (op = 6 /\ x.v = 0)
    THEN TracedOutcome("Running", 0, m, t.v, rb, inp, x.prog)
    ELSE TracedOutcome("Running", 0, m, p + 3, rb, inp, x.prog)
TracedJumpTarget(op, t, m, p, rb, inp, checks) ==
    IF t.tag # "Ok" THEN TracedFail(t, m, p, rb, inp)
    ELSE TracedJumpTest(op, t, traced_param(t.prog, m, p, rb, checks, 1),
                        m, p, rb, inp)
TracedJumpInstr(op, prog, m, p, rb, inp, checks) ==
    TracedJumpTarget(op, jump_param(prog, m, p, rb, checks, 2), m, p, rb, inp,
                     checks)

\* AdjustRelativeBase
TracedAdjustSum(r, prog, m, p, rb, inp) ==
    IF r.tag # "Ok" THEN TracedOutcome(r.tag, r.v, m, p, rb, inp, prog)
    ELSE TracedOutcome("Running", 0, m, p + 2, r.v, inp, prog)
TracedAdjustOf(x, m, p, rb, inp, checks) ==
    IF x.tag # "Ok" THEN TracedFail(x, m, p, rb, inp)
    ELSE TracedAdjustSum(Arith(rb + x.v, checks), x.prog, m, p, rb, inp)
TracedAdjust(prog, m, p, rb, inp, checks) ==
    TracedAdjustOf(traced_param(prog, m, p, rb, checks, 1), m, p, rb, inp, checks)

\* the match on the opcode, after `self.prog.mark_opcode(self.ptr, opcode)`
TracedMatch(op, r, m, p, rb, inp, checks) ==
    IF ~r.ok THEN TracedOutcome("MarkPanic", 0, m, p, rb, inp, r.prog)
    ELSE CASE op \in {1, 2, 7, 8} -> TracedStore(op, r.prog, m, p, rb, inp, checks)
           [] op = 3 -> TracedInput(r.prog, m, p, rb, inp, checks)
           [] op = 4 -> TracedOutput(r.prog, m, p, rb, inp, checks)
           [] op \in {5, 6} -> TracedJumpInstr(op, r.prog, m, p, rb, inp, checks)
           [] op = 9 -> TracedAdjust(r.prog, m, p, rb, inp, checks)
           [] op = 99 -> TracedOutcome("Complete", 0, m, p, rb, inp, r.prog)

\* one iteration of the loop of Computer::next
TracedOpcode(op, prog, m, p, rb, inp, checks) ==
    IF op \notin OpcodeValues
    THEN TracedOutcome("UnknownOpcode", op, m, p, rb, inp, prog)
    ELSE TracedMatch(op, mark_opcode(prog, p, Opcode_from_value(op)),
                     m, p, rb, inp, checks)
traced_next(prog, m, p, rb, inp, checks) ==
    TracedOpcode(RustRem(mem_get(m, p), 100), prog, m, p, rb, inp, checks)

(***************************************************************************)
(* The static marker (disassemble/src/statically.rs).                      *)
(***************************************************************************)
\* Slot::has_rw_purpose, Slot::has_jump_purpose
has_rw_purpose(slot) == \E m \in slot.mentions : m.purpose \in {"Read", "Write"}
has_jump_purpose(slot) == \E m \in slot.mentions : m.purpose = "Jump"

\* the bytes try_mark_string takes for characters
Printable == {9, 10, 13} \cup (32..126)

\* a mutant of is_char: a marked slot counts as a character
is_char_marked(prog, a) ==
    IF a >= Len(prog) THEN FALSE
    ELSE /\ prog[a + 1].label = NoLabel
         /\ prog[a + 1].raw \in Printable

\* the closure is_char of try_mark_string
is_char(prog, a) ==
    IF a >= Len(prog) THEN FALSE
    ELSE /\ prog[a + 1].mark = NoMark
         /\ prog[a + 1].label = NoLabel
         /\ prog[a + 1].raw \in Printable

\* `while let Some(true) = is_char(p, a)`: the address the scan stops at
RECURSIVE StringEnd(_, _)
StringEnd(prog, a) == IF is_char(prog, a) THEN StringEnd(prog, a + 1) ELSE a

\* `for a in addresses { p.mark(a, mk) }` over the addresses a..e-1
RECURSIVE MarkEach(_, _, _, _)
MarkEach(r, a, e, mk) ==
    IF a >= e \/ ~r.ok THEN r
    ELSE MarkEach(mark(r.prog, a, mk), a + 1, e, mk)

\* try_mark_string: whether it is Some, and the image
TryMarkStringTo(prog, addr, e) ==
    IF e - addr < 2 THEN [some |-> FALSE, r |-> Marked(prog)]
    ELSE [some |-> TRUE, r |-> MarkEach(Marked(prog), addr, e, StringMark)]
try_mark_string(prog, addr) == TryMarkStringTo(prog, addr, StringEnd(prog, addr))

\* the parameters of a candidate instruction: each has a slot, unmarked,
\* and a mode digit that is a mode
ParamsFree(prog, addr, ps) ==
    \A i \in 1..ps :
        IF addr + i >= Len(prog) THEN FALSE
        ELSE /\ prog[addr + i + 1].mark = NoMark
             /\ RustRem(RustDiv(prog[addr + 1].raw, 10 ^ (i + 1)), 10) \in {0, 1, 2}

\* `for (addr, mode) in modes { p.mark_param(addr, mode) }`
RECURSIVE MarkParams(_, _, _, _)
MarkParams(r, addr, i, ps) ==
    IF i > ps \/ ~r.ok THEN r
    ELSE MarkParams(
            mark_param(r.prog, addr + i,
                Mode_from_value(
                    RustRem(RustDiv(r.prog[addr + 1].raw, 10 ^ (i + 1)), 10))),
            addr, i + 1, ps)

\* try_mark_instr
TryMarkInstrOf(prog, addr, op, ps) ==
    IF RustDiv(prog[addr + 1].raw, 10 ^ (ps + 2)) > 0 THEN Marked(prog)
    ELSE IF ~ParamsFree(prog, addr, ps) THEN Marked(prog)
    ELSE MarkParams(mark_opcode(prog, addr, op), addr, 1, ps)
try_mark_instr(prog, addr) ==
    IF prog[addr + 1].mark # NoMark THEN Marked(prog)
    ELSE IF RustRem(prog[addr + 1].raw, 100) \notin OpcodeValues THEN Marked(prog)
    ELSE TryMarkInstrOf(prog, addr,
            Opcode_from_value(RustRem(prog[addr + 1].raw, 100)),
            Opcode_params(Opcode_from_value(RustRem(prog[addr + 1].raw, 100))))

\* the body of the first loop of mark: a string, or else data
StringOrData(prog, t, i) ==
    IF ~t.some /\ prog[i + 1].mark = NoMark THEN mark(prog, i, DataMark)
    ELSE t.r

\* the first loop of mark, over the slots that were unmarked and mentioned
\* by a read or a write when it began (the image p0)
RECURSIVE MarkData(_, _, _)
MarkData(r, p0, i) ==
    IF i >= Len(p0) \/ ~r.ok THEN r
    ELSE IF p0[i + 1].mark = NoMark /\ has_rw_purpose(p0[i + 1])
    THEN MarkData(StringOrData(r.prog, try_mark_string(r.prog, i), i), p0, i + 1)
    ELSE MarkData(r, p0, i + 1)

\* the second loop of mark, over the slots that were unmarked and mentioned
\* by a jump when it began (the image p1)
RECURSIVE MarkInstrs(_, _, _)
MarkInstrs(r, p1, i) ==
    IF i >= Len(p1) \/ ~r.ok THEN r
    ELSE IF p1[i + 1].mark = NoMark /\ has_jump_purpose(p1[i + 1])
    THEN MarkInstrs(try_mark_instr(r.prog, i), p1, i + 1)
    ELSE MarkInstrs(r, p1, i + 1)

\* statically::mark
MarkInstrsFrom(r) == IF r.ok THEN MarkInstrs(r, r.prog, 0) ELSE r
statically_mark(prog) == MarkInstrsFrom(MarkData(Marked(prog), prog, 0))

(***************************************************************************)
(* The labeler (disassemble/src/labels.rs).                                *)
(***************************************************************************)
Letters ==
    <<"a", "b", "c", "d", "e", "f", "g", "h", "i", "j", "k", "l", "m", "n",
      "o", "p", "q", "r", "s", "t", "u", "v", "w", "x", "y", "z">>
Digits == <<"0", "1", "2", "3", "4", "5", "6", "7", "8", "9">>
NotL(c) == c # "l"

\* `('a'..'z')`, a range without its end, and `('a'..='z')`, each filtered
SinglesOf == SelectSeq(SubSeq(Letters, 1, Len(Letters) - 1), NotL)
DoublesOf == SelectSeq(Letters, NotL)

\* unique(): the label of index n, from 0, and the number of labels
UniqueCount == Len(SinglesOf) + Len(DoublesOf) * Len(Digits)
unique(n) ==
    IF n < Len(SinglesOf) THEN Fixed(<<SinglesOf[n + 1]>>)
    ELSE Fixed(<<DoublesOf[((n - Len(SinglesOf)) \div Len(Digits)) + 1],
                 Digits[((n - Len(SinglesOf)) % Len(Digits)) + 1]>>)

\* Program::instr and Program::instr_addr: the address of the opcode before
\* addr, -1 for None
RECURSIVE instr_addr(_, _)
instr_addr(prog, addr) ==
    IF addr <= 0 THEN 0 - 1
    ELSE IF prog[addr].mark.kind = "Opcode" THEN addr - 1
    ELSE instr_addr(prog, addr - 1)

\* get_labeled_addr: the address the slot i refers to, -1 for None
JumpTarget(prog, i, at) ==
    IF at < 0 THEN FALSE
    ELSE prog[at + 1].mark.op \in {"JumpNonZero", "JumpZero"} /\ i - at = 2
get_labeled_addr(prog, i) ==
    IF prog[i + 1].mark.kind # "Param" THEN 0 - 1
    ELSE IF prog[i + 1].mark.param.kind # "Number" THEN 0 - 1
    ELSE IF ~(0 < prog[i + 1].raw /\ prog[i + 1].raw < Len(prog)) THEN 0 - 1
    ELSE IF prog[i + 1].mark.param.mode = "Positional" THEN prog[i + 1].raw
    ELSE IF prog[i + 1].mark.param.mode = "Immediate"
            /\ JumpTarget(prog, i, instr_addr(prog, i))
    THEN prog[i + 1].raw
    ELSE 0 - 1

\* the entry of the map refs for addr: the referrers, in order
Referrers(p0, addr) == {i \in 0..(Len(p0) - 1) : get_labeled_addr(p0, i) = addr}

\* the labeler at work: the image, the labels taken so far, and whether it
\* has not panicked
Labeling(prog, n, ok) == [prog |-> prog, taken |-> n, ok |-> ok]

\* Program::get_or_set_label with `|| labels.next().unwrap()`
get_or_set_label(st, addr) ==
    IF st.prog[addr + 1].label # NoLabel THEN st
    ELSE IF st.taken >= UniqueCount THEN Labeling(st.prog, st.taken, FALSE)
    ELSE Labeling([st.prog EXCEPT ![addr + 1].label = unique(st.taken)],
                  st.taken + 1, st.ok)

\* Program::label_param, on a parameter that is a number
label_param(prog, i, label, offset) ==
    [prog EXCEPT ![i + 1].mark =
        ParamMark(Label(prog[i + 1].mark.param.mode, label, offset))]

\* `for (_, i) in indexes { p.label_param(i, label.clone(), offset) }`
RECURSIVE LabelParams(_, _, _, _)
LabelParams(prog, is, label, offset) ==
    IF is = {} THEN prog
    ELSE LET i == CHOOSE j \in is : \A k \in is : j <= k
         IN  LabelParams(label_param(prog, i, label, offset), is \ {i}, label,
                         offset)

\* the arms Opcode and Data | None: a label on the address itself
LabelAt(st, addr, is) ==
    IF ~st.ok THEN st
    ELSE Labeling(LabelParams(st.prog, is, st.prog[addr + 1].label, 0),
                  st.taken, TRUE)

\* the arm Param: ip when every referrer is in the instruction before, else
\* a label on the opcode of the instruction, and the offset from that opcode
LabelInside(st, addr, is, this_op, labelled) ==
    IF \A i \in is : instr_addr(st.prog, i) = instr_addr(st.prog, this_op)
    THEN Labeling(LabelParams(st.prog, is, InstructionPointer, addr - this_op),
                  st.taken, TRUE)
    ELSE IF ~labelled.ok THEN labelled
    ELSE Labeling(LabelParams(labelled.prog, is,
                              labelled.prog[this_op + 1].label, addr - this_op),
                  labelled.taken, TRUE)
LabelParam(st, addr, is, this_op) ==
    IF this_op < 0 THEN Labeling(st.prog, st.taken, FALSE)
    ELSE LabelInside(st, addr, is, this_op,
                     IF \A i \in is :
                            instr_addr(st.prog, i) = instr_addr(st.prog, this_op)
                     THEN st ELSE get_or_set_label(st, this_op))

\* the arm String, which labels.rs has not: the label goes on the start of
\* the string and the offset is counted from there
RECURSIVE StringStart(_, _)
StringStart(prog, addr) ==
    IF addr = 0 THEN 0
    ELSE IF prog[addr].mark.kind # "String" THEN addr
    ELSE StringStart(prog, addr - 1)
LabelStringAt(st, addr, is, start) ==
    IF ~st.ok THEN st
    ELSE Labeling(LabelParams(st.prog, is, st.prog[start + 1].label,
                              addr - start),
                  st.taken, TRUE)
LabelString(st, addr, is) ==
    LabelStringAt(get_or_set_label(st, StringStart(st.prog, addr)), addr, is,
                  StringStart(st.prog, addr))

\* the body of `for (addr, indexes) in refs`
AssignTo(st, addr, is) ==
    CASE st.prog[addr + 1].mark.kind = "Opcode" ->
            LabelAt(get_or_set_label(st, addr), addr, is)
      [] st.prog[addr + 1].mark.kind = "Param" ->
            LabelParam(st, addr, is, instr_addr(st.prog, addr))
      [] st.prog[addr + 1].mark.kind \in {"Data", "None"} ->
            LabelAt(get_or_set_label(st, addr), addr, is)
      [] st.prog[addr + 1].mark.kind = "String" -> LabelString(st, addr, is)

\* assign: the targets in the order of their addresses; the referrers are
\* those of the image p0 it was called with
RECURSIVE AssignFrom(_, _, _)
AssignFrom(st, p0, addr) ==
    IF addr >= Len(p0) \/ ~st.ok THEN st
    ELSE IF Referrers(p0, addr) = {} THEN AssignFrom(st, p0, addr + 1)
    ELSE AssignFrom(AssignTo(st, addr, Referrers(p0, addr)), p0, addr + 1)
assign(prog, n) == AssignFrom(Labeling(prog, n, TRUE), prog, 0)

(***************************************************************************)
(* Program::into_ast (disassemble/src/program.rs) and the text of the      *)
(* syntax tree (disassemble/src/fmt.rs).  A text is a sequence of          *)
(* characters.                                                             *)
(***************************************************************************)
\* the characters of the bytes 32 to 126, in order; the grave accent, byte
\* 96, stands under its name
Ascii ==
    <<" ", "!", "\"", "#", "$", "%", "&", "'", "(", ")", "*", "+", ",",
      "-", ".", "/", "0", "1", "2", "3", "4", "5", "6", "7", "8", "9", ":",
      ";", "<", "=", ">", "?", "@", "A", "B", "C", "D", "E", "F", "G", "H",
      "I", "J", "K", "L", "M", "N", "O", "P", "Q", "R", "S", "T", "U", "V",
      "W", "X", "Y", "Z", "[", "\\", "]", "^", "_", "grave", "a", "b",
      "c",
      "d", "e", "f", "g", "h", "i", "j", "k", "l", "m", "n", "o", "p", "q",
      "r", "s", "t", "u", "v", "w", "x", "y", "z", "{", "|", "}", "~">>

\* the character of a byte of a string, and the byte of a character
CharOf(b) ==
    CASE b = 9 -> "\t"
      [] b = 10 -> "\n"
      [] b = 13 -> "\r"
      [] OTHER -> Ascii[b - 31]
ByteOf(c) ==
    CASE c = "\t" -> 9
      [] c = "\n" -> 10
      [] c = "\r" -> 13
      [] OTHER -> 31 + (CHOOSE k \in 1..Len(Ascii) : Ascii[k] = c)

\* the iterator of the arm Mutable: the first address from a on that holds
\* no parameter
RECURSIVE ParamsEnd(_, _)
ParamsEnd(prog, a) ==
    IF a >= Len(prog) THEN a
    ELSE IF prog[a + 1].mark.kind # "Param" THEN a
    ELSE ParamsEnd(prog, a + 1)

\* Program::bucket_unlabelled: the first address from a on that is not an
\* unlabelled slot marked m
RECURSIVE BucketEnd(_, _, _)
BucketEnd(prog, a, m) ==
    IF a >= Len(prog) THEN a
    ELSE IF prog[a + 1].mark # m \/ prog[a + 1].label # NoLabel THEN a
    ELSE BucketEnd(prog, a + 1, m)

\* Program::get_param(addr).is_some()
HasParam(prog, addr) ==
    IF addr >= Len(prog) THEN FALSE ELSE prog[addr + 1].mark.kind = "Param"

\* the statements of the arms of into_ast, the slot at the address at being marked
StmtInstr(prog, at, op) ==
    Stmt(prog[at + 1].label,
         Instr(op, [i \in 1..Opcode_params(op) |-> prog[at + i + 1].mark.param]))
StmtMutable(prog, at, end) ==
    Stmt(prog[at + 1].label,
         Instr("Mutable", [i \in 1..(end - at) |-> prog[at + i].raw]))
StmtString(prog, at, end) ==
    Stmt(prog[at + 1].label,
         Instr("Data",
               <<RawString([i \in 1..(end - at) |-> CharOf(prog[at + i].raw)])>>))
StmtData(prog, at, end) ==
    Stmt(prog[at + 1].label,
         Instr("Data", [i \in 1..(end - at) |-> RawNumber(prog[at + i].raw)]))

\* the loop `while let Some(slot) = self.slots.get(ptr)`; a panic leaves
\* ok FALSE
RECURSIVE IntoAstFrom(_, _, _)
IntoAstFrom(prog, at, sts) ==
    IF at >= Len(prog) THEN [ok |-> TRUE, stmts |-> sts]
    ELSE IF prog[at + 1].mark.kind \in {"Param", "None"}
    THEN [ok |-> FALSE, stmts |-> sts]
    ELSE IF prog[at + 1].mark.kind = "String"
    THEN IntoAstFrom(prog, BucketEnd(prog, at + 1, StringMark),
                     Append(sts, StmtString(prog, at,
                                            BucketEnd(prog, at + 1, StringMark))))
    ELSE IF prog[at + 1].mark.kind = "Data"
    THEN IntoAstFrom(prog, BucketEnd(prog, at + 1, DataMark),
                     Append(sts, StmtData(prog, at,
                                          BucketEnd(prog, at + 1, DataMark))))
    ELSE IF prog[at + 1].mark.op = "Mutable"
    THEN IntoAstFrom(prog, ParamsEnd(prog, at + 1),
                     Append(sts, StmtMutable(prog, at, ParamsEnd(prog, at + 1))))
    ELSE IF \E i \in 1..Opcode_params(prog[at + 1].mark.op) :
                ~HasParam(prog, at + i)
    THEN [ok |-> FALSE, stmts |-> sts]
    ELSE IntoAstFrom(prog, at + 1 + Opcode_params(prog[at + 1].mark.op),
                     Append(sts, StmtInstr(prog, at, prog[at + 1].mark.op)))
into_ast(prog) == IntoAstFrom(prog, 0, <<>>)

\* `{}` and `{:+}` of an i64
RECURSIVE DecimalOf(_)
DecimalOf(n) ==
    IF n < 10 THEN <<Digits[n + 1]>>
    ELSE DecimalOf(n \div 10) \o <<Digits[(n % 10) + 1]>>
FmtNumber(v) == IF v < 0 THEN <<"-">> \o DecimalOf(0 - v) ELSE DecimalOf(v)
FmtSigned(v) == IF v < 0 THEN FmtNumber(v) ELSE <<"+">> \o DecimalOf(v)

\* impl Display for Label, with the offset of a parameter after it
FmtLabel(label, value) ==
    IF value = 0 THEN label.name ELSE label.name \o FmtSigned(value)
FmtRb(value) == IF value = 0 THEN <<"r", "b">> ELSE <<"r", "b">> \o FmtSigned(value)

\* impl Display for Param
FmtParam(pm) ==
    CASE pm.mode = "Relative" -> FmtRb(pm.value)
      [] pm.mode = "Positional" /\ pm.kind = "Label" -> FmtLabel(pm.label, pm.value)
      [] pm.mode = "Immediate" /\ pm.kind = "Label" ->
            <<"#">> \o FmtLabel(pm.label, pm.value)
      [] pm.mode = "Positional" /\ pm.kind = "Number" -> FmtNumber(pm.value)
      [] pm.mode = "Immediate" /\ pm.kind = "Number" ->
            <<"#">> \o FmtNumber(pm.value)

\* `{:?}` of a string: the characters escaped, between quotes
EscapeDebug(c) ==
    CASE c = "\t" -> <<"\\", "t">>
      [] c = "\n" -> <<"\\", "n">>
      [] c = "\r" -> <<"\\", "r">>
      [] c = "\"" -> <<"\\", "\"">>
      [] c = "\\" -> <<"\\", "\\">>
      [] OTHER -> <<c>>
RECURSIVE EscapeAll(_, _)
EscapeAll(cs, k) ==
    IF k > Len(cs) THEN <<>> ELSE EscapeDebug(cs[k]) \o EscapeAll(cs, k + 1)

\* impl Display for RawParam
FmtRawParam(rp) ==
    CASE rp.kind = "Label" -> FmtLabel(rp.label, rp.value)
      [] rp.kind = "Number" -> FmtNumber(rp.value)
      [] rp.kind = "String" -> <<"\"">> \o EscapeAll(rp.bytes, 1) \o <<"\"">>

\* the items of an instruction, separated by a comma and a space
RECURSIVE FmtList(_, _)
FmtList(texts, k) ==
    IF k > Len(texts) THEN <<>>
    ELSE IF k = Len(texts) THEN texts[k]
    ELSE texts[k] \o <<",", " ">> \o FmtList(texts, k + 1)

\* impl Display for Instr
FmtMnemonic(op) ==
    CASE op = "Add" -> <<"A", "D", "D">>
      [] op = "Multiply" -> <<"M", "U", "L">>
      [] op = "LessThan" -> <<"L", "T">>
      [] op = "Equal" -> <<"E", "Q">>
      [] op = "JumpNonZero" -> <<"J", "N", "Z">>
      [] op = "JumpZero" -> <<"J", "Z">>
      [] op = "Input" -> <<"I", "N">>
      [] op = "Output" -> <<"O", "U", "T">>
      [] op = "AdjustRelativeBase" -> <<"A", "R", "B">>
      [] op = "Halt" -> <<"H", "L", "T">>
      [] op \in {"Data", "Mutable"} -> <<"D", "B">>
FmtItems(instr) ==
    CASE instr.op = "Data" ->
            [k \in 1..Len(instr.params) |-> FmtRawParam(instr.params[k])]
      [] instr.op = "Mutable" ->
            [k \in 1..Len(instr.params) |-> FmtNumber(instr.params[k])]
      [] OTHER -> [k \in 1..Len(instr.params) |-> FmtParam(instr.params[k])]
FmtInstr(instr) ==
    IF instr.op = "Halt" THEN FmtMnemonic(instr.op)
    ELSE FmtMnemonic(instr.op) \o <<" ">> \o FmtList(FmtItems(instr), 1)

\* impl Display for Stmt and for Ast: a line for each statement
FmtStmt(stmt) ==
    IF stmt.label = NoLabel THEN FmtInstr(stmt.instr)
    ELSE stmt.label.name \o <<":", " ">> \o FmtInstr(stmt.instr)
RECURSIVE FmtAst(_, _)
FmtAst(sts, k) ==
    IF k > Len(sts) THEN <<>>
    ELSE FmtStmt(sts[k]) \o <<"\n">> \o FmtAst(sts, k + 1)

\* the bytes of the strings of a statement read back: the syntax tree the
\* assembler is handed
AsBytes(rp) ==
    IF rp.kind = "String"
    THEN RawString([k \in 1..Len(rp.bytes) |-> ByteOf(rp.bytes[k])])
    ELSE rp
StmtAsBytes(stmt) ==
    IF stmt.instr.op # "Data" THEN stmt
    ELSE Stmt(stmt.label,
              Instr("Data", [k \in 1..Len(stmt.instr.params) |->
                                AsBytes(stmt.instr.params[k])]))

(***************************************************************************)
(* The programs disassembled and the runs they are traced with.            *)
(***************************************************************************)
\* enum Input, and the None of a Run without input
NoInput == [kind |-> "None", vals |-> <<>>]
Static(vs) == [kind |-> "Static", vals |-> vs]
Forever(v) == [kind |-> "Forever", vals |-> <<v>>]

RunInputs == {NoInput, Static(<<7>>), Forever(0)}
RunLists == UNION {[1..n -> RunInputs] : n \in 0..MaxRuns}

DisPrograms ==
    { <<99>>,
      <<99, 5>>,                                      \* a word never touched
      <<109, 10, 204, 0, 109, 1, 1205, 0, 2, 99, 72, 105>>,  \* prints Hi
      <<1, 9, 10, 3, 2, 3, 11, 0, 99, 30, 40, 50>>,   \* writes over itself
      <<3, 0, 4, 0, 99>>,                             \* echo
      <<3, 0, 3, 1, 99>>,                             \* two inputs
      <<1105, 99, 1>>,                                \* jumps into a parameter
      <<1101, 50, 49, 4>>,                            \* runs past the end
      <<1101, 50, 49, 4, 0>>,                         \* runs a word it wrote
      <<1, 12, 13, 0, 1008, 0, 2, 14, 1005, 14, 0, 99, 1, 1, 0>>,
                                                      \* ADD becomes MUL
      <<3105, 0, 0, 104, 5, 99>>,                     \* jump not taken, digit 3
      <<1105, 0, 0 - 1, 99>>,                         \* not taken, target -1
      <<1005, 5, 4, 0, 4, 3, 99>>,                    \* jumps over a word
      <<1005, 4, 3, 4, 2, 99>>,                       \* reads the next instruction
      <<4, 3, 99, 97, 92>>,                           \* data a, backslash
      <<4, 3, 99, 104, 105>>,                         \* data h, i
      <<1006, 9, 6, 104, 1, 99, 104, 2, 99, 0>>,      \* a jump taken forward
      <<1105, 0, 4, 99, 99>>,                         \* a target never run
      <<4, 5, 1105, 1, 7, 104, 105, 99>>,             \* data h, i, then HLT
      <<204, 1, 203, 0 - 1, 99>>,                     \* relative, address -1
      <<303, 0, 99>>,                                 \* Input, mode digit 3
      <<1101, IntMax, 1, 5, 99, 0>>,                  \* a sum out of range
      <<7>> }

(***************************************************************************)
(* dynamically::mark: the loop over the runs and, in a run, over the calls *)
(* of next().  dres.kind is "Running" inside the loop of next(), "Fed"     *)
(* after the arm Waiting has fed the computer, "None" before a run, and    *)
(* otherwise what next() returned or what mark returned.                   *)
(***************************************************************************)
DisInit ==
    /\ VmIdle
    /\ AsmIdle
    /\ FrontIdle
    /\ slots \in {Program_new(i) : i \in DisPrograms}
    /\ dmem = original(slots)
    /\ dptr = 0
    /\ drb = 0
    /\ dinput = <<>>
    /\ dres = [kind |-> "None", val |-> 0]
    /\ runs \in RunLists
    /\ phase = "dynamic"
    /\ vmOut = [kind |-> "None", val |-> 0, mem |-> <<>>, ptr |-> 0, rb |-> 0,
                input |-> <<>>]
    /\ entry = <<>>
    /\ taken = 0
    /\ names = <<>>
    /\ dast = <<>>

\* one iteration of the loop of c.next(), and the `?` of mark on its error
MarkStep(checks) ==
    /\ phase = "dynamic"
    /\ runs # <<>>
    /\ dres.kind \in {"None", "Running", "Yielded", "Fed"}
    /\ \E o \in {traced_next(slots, dmem, dptr, drb, dinput, checks)} :
        /\ slots' = o.prog
        /\ dmem' = o.mem
        /\ dptr' = o.ptr
        /\ drb' = o.rb
        /\ dinput' = o.input
        /\ dres' = [kind |-> o.kind, val |-> o.val]
        /\ phase' = CASE o.kind \in {"UnknownMode", "UnknownOpcode",
                                     "BadConversion"} -> "error"
                      [] o.kind \in {"Panic", "MarkPanic"} -> "panic"
                      [] OTHER -> "dynamic"
    /\ vmOut' = ExecInstr(dmem, dptr, drb, dinput, checks)
    /\ UNCHANGED <<runs, entry, taken, names, dast>>
    /\ UNCHANGED vmVars
    /\ UNCHANGED asmVars
    /\ UNCHANGED frontVars

\* the arm State::Waiting
MarkWaiting ==
    /\ phase = "dynamic"
    /\ dres.kind = "Waiting"
    /\ CASE Head(runs).kind = "Forever" ->
                /\ dinput' = dinput \o Head(runs).vals
                /\ dres' = [kind |-> "Fed", val |-> 0]
                /\ UNCHANGED <<runs, phase>>
         [] Head(runs).kind = "Static" ->
                /\ dinput' = dinput \o Head(runs).vals
                /\ runs' = [runs EXCEPT ![1] = Static(<<>>)]
                /\ dres' = [kind |-> "Fed", val |-> 0]
                /\ UNCHANGED phase
         [] Head(runs).kind = "None" ->
                /\ dres' = [kind |-> "WantInput", val |-> 0]
                /\ phase' = "error"
                /\ UNCHANGED <<dinput, runs>>
    /\ UNCHANGED <<slots, dmem, dptr, drb, vmOut, entry, taken, names, dast>>
    /\ UNCHANGED vmVars
    /\ UNCHANGED asmVars
    /\ UNCHANGED frontVars

\* the arm State::Complete, and c.reset()
MarkComplete ==
    /\ phase = "dynamic"
    /\ dres.kind = "Complete"
    /\ dmem' = original(slots)
    /\ dptr' = 0
    /\ drb' = 0
    /\ dinput' = <<>>
    /\ dres' = [kind |-> "None", val |-> 0]
    /\ runs' = Tail(runs)
    /\ UNCHANGED <<slots, phase, vmOut, entry, taken, names, dast>>
    /\ UNCHANGED vmVars
    /\ UNCHANGED asmVars
    /\ UNCHANGED frontVars

\* the end of the loop over the runs: mark returns Ok(())
MarkReturn ==
    /\ phase = "dynamic"
    /\ runs = <<>>
    /\ phase' = "static"
    /\ UNCHANGED <<slots, dmem, dptr, drb, dinput, dres, runs, vmOut, entry,
                   taken, names, dast>>
    /\ UNCHANGED vmVars
    /\ UNCHANGED asmVars
    /\ UNCHANGED frontVars

\* statically::mark
StaticMark ==
    /\ phase = "static"
    /\ entry' = [a \in 1..Len(slots) |-> slots[a].mark]
    /\ \E r \in {statically_mark(slots)} :
        /\ slots' = r.prog
        /\ phase' = IF r.ok THEN "label" ELSE "panic"
        /\ dres' = IF r.ok THEN dres ELSE [kind |-> "StaticPanic", val |-> 0]
    /\ UNCHANGED <<dmem, dptr, drb, dinput, runs, vmOut, taken, names, dast>>
    /\ UNCHANGED vmVars
    /\ UNCHANGED asmVars
    /\ UNCHANGED frontVars

\* the labels of indexes n..m-1 of unique()
RECURSIVE TakenFrom(_, _)
TakenFrom(n, m) == IF n >= m THEN <<>> ELSE <<unique(n)>> \o TakenFrom(n + 1, m)

\* labels::assign(p, unique())
AssignLabels ==
    /\ phase = "label"
    /\ \E st \in {assign(slots, taken)} :
        /\ slots' = st.prog
        /\ taken' = st.taken
        /\ names' = names \o TakenFrom(taken, st.taken)
        /\ phase' = IF st.ok THEN "ast" ELSE "panic"
        /\ dres' = IF st.ok THEN dres ELSE [kind |-> "LabelPanic", val |-> 0]
    /\ UNCHANGED <<dmem, dptr, drb, dinput, runs, vmOut, entry, dast>>
    /\ UNCHANGED vmVars
    /\ UNCHANGED asmVars
    /\ UNCHANGED frontVars

\* p.into_ast()
IntoAst ==
    /\ phase = "ast"
    /\ \E r \in {into_ast(slots)} :
        /\ dast' = r.stmts
        /\ phase' = IF r.ok THEN "format" ELSE "panic"
        /\ dres' = IF r.ok THEN dres ELSE [kind |-> "AstPanic", val |-> 0]
    /\ UNCHANGED <<slots, dmem, dptr, drb, dinput, runs, vmOut, entry, taken,
                   names>>
    /\ UNCHANGED vmVars
    /\ UNCHANGED asmVars
    /\ UNCHANGED frontVars

\* ast.to_string(), handed to the assembler's parser
Format ==
    /\ phase = "format"
    /\ source' = FmtAst(dast, 1)
    /\ phase' = "parse"
    /\ UNCHANGED <<lexPos, toks, lexErr, cursor, stmts, perrors, parsed>>
    /\ UNCHANGED <<slots, dmem, dptr, drb, dinput, dres, runs, vmOut, entry,
                   taken, names, dast>>
    /\ UNCHANGED vmVars
    /\ UNCHANGED asmVars

\* the parser at work on the text
ParseText == phase = "parse" /\ ParseNext

\* the statements parsed, handed to the assembler's backend
Assemble ==
    /\ phase = "parse"
    /\ parsed = "Ok"
    /\ ast' = [k \in 1..Len(stmts) |-> StmtAsBytes(stmts[k])]
    /\ phase' = "assemble"
    /\ UNCHANGED <<asmPc, output, labels, errors, warnings, asmResult>>
    /\ UNCHANGED <<slots, dmem, dptr, drb, dinput, dres, runs, vmOut, entry,
                   taken, names, dast>>
    /\ UNCHANGED vmVars
    /\ UNCHANGED frontVars

\* the backend at work on the statements
AssembleText == phase = "assemble" /\ AsmNext

DisNext ==
    \/ IntoAst
    \/ Format
    \/ ParseText
    \/ Assemble
    \/ AssembleText
    \/ \E checks \in BOOLEAN : MarkStep(checks)
    \/ MarkWaiting
    \/ MarkComplete
    \/ MarkReturn
    \/ StaticMark
    \/ AssignLabels

DisSpec == DisInit /\ [][DisNext]_vars

(***************************************************************************)
(* The label source on its own: unique() taken to its end, one next() at   *)
(* a time.                                                                 *)
(***************************************************************************)
UniqueInit == VmIdle /\ AsmIdle /\ FrontIdle /\ DisIdle

\* labels.next()
UniqueNext ==
    /\ phase = "idle"
    /\ taken < UniqueCount
    /\ taken' = taken + 1
    /\ names' = Append(names, unique(taken))
    /\ UNCHANGED <<slots, dmem, dptr, drb, dinput, dres, runs, phase, vmOut,
                   entry, dast>>
    /\ UNCHANGED vmVars
    /\ UNCHANGED asmVars
    /\ UNCHANGED frontVars

UniqueSpec == UniqueInit /\ [][UniqueNext]_vars

(***************************************************************************)
(* The vocabulary of the properties of the disassembler.                   *)
(***************************************************************************)
\* the run being traced has no value left to feed
Starved ==
    /\ phase = "dynamic"
    /\ dres.kind = "Waiting"
    /\ \/ Head(runs).kind = "None"
       \/ Head(runs).kind = "Static" /\ Head(runs).vals = <<>>

\* C22: when the traced computer is Waiting and the run has no further value
\* to feed (no input, or a Static sequence fed in full), mark returns
\* Err(WantInput) and does not step the computer again.
C22_StarvedRunWantsInput ==
    [][Starved => dres'.kind = "WantInput"]_vars

\* the next step is an iteration of the marker's next(): no other action is
\* enabled where this holds
TracedStepDue ==
    /\ phase = "dynamic"
    /\ runs # <<>>
    /\ dres.kind \in {"None", "Running", "Yielded", "Fed"}

\* the marker and the VM leave the instruction with the same result; the
\* marker's BadConversion stands for the VM's failed cast
SameResult(d, v) ==
    \/ d.kind = v.kind /\ d.val = v.val
    \/ d.kind = "BadConversion" /\ v.kind = "Panic"

\* C23: on every instruction the marker's computer and the VM, started in
\* the same state, give the same result (Running on, Yielded and its value,
\* Waiting, Complete, or an error) and leave the same ip, relative base,
\* memory and input queue.
C23_MarkerIsTheVm ==
    [][TracedStepDue =>
        /\ SameResult(dres', vmOut')
        /\ dmem' = vmOut'.mem
        /\ dptr' = vmOut'.ptr
        /\ drb' = vmOut'.rb
        /\ dinput' = vmOut'.input]_vars

\* the VM, started in the state v, runs on to Complete or Waiting within n
\* instructions, without an error and without a panic
RECURSIVE RunsClean(_, _)
RunsCleanOn(v, n) ==
    IF v.kind \in {"Complete", "Waiting"} THEN TRUE
    ELSE IF v.kind \in {"Running", "Yielded"} THEN RunsClean(v, n)
    ELSE FALSE
RunsClean(v, n) ==
    IF n = 0 THEN FALSE
    ELSE RunsCleanOn(ExecInstr(v.mem, v.ptr, v.rb, v.input, FALSE), n - 1)
CleanWithin == 8

\* C29: where the VM executes the run without an error, no mark_opcode and
\* no mark_param of the marker panics: not on an opcode at an address marked
\* as a parameter, not on a parameter marked with another mode or as an
\* opcode, not on an address past the end of the original program.
C29_MarkingNeverAborts ==
    (dres.kind = "MarkPanic") => ~RunsCleanOn(vmOut, CleanWithin)

\* the opcode the marker is about to execute, and where
Executing == RustRem(mem_get(dmem, dptr), 100)

\* how the mark of the slot at address a - 1 may change in a step
MarkChange(a) ==
    \/ slots'[a].mark = slots[a].mark
    \/ /\ slots[a].mark = NoMark
       /\ slots'[a].mark.kind \in {"Opcode", "Param", "String", "Data"}
       /\ (phase = "dynamic" /\ slots'[a].mark.kind = "Opcode") =>
            /\ a = dptr + 1
            /\ IF RustRem(slots[a].raw, 100) = Executing
               THEN slots'[a].mark = OpcodeMark(Opcode_from_value(Executing))
               ELSE slots'[a].mark = OpcodeMark("Mutable")
    \/ /\ slots[a].mark.kind = "Opcode"
       /\ slots[a].mark.op # "Mutable"
       /\ slots'[a].mark = OpcodeMark("Mutable")
       /\ phase = "dynamic"
       /\ a = dptr + 1
       /\ Opcode_value(slots[a].mark.op) # Executing

\* what a step keeps of the image
ImageKept ==
    /\ Len(slots') = Len(slots)
    /\ \A a \in 1..Len(slots) :
        /\ slots[a].mentions \subseteq slots'[a].mentions
        /\ slots'[a].raw = slots[a].raw
        /\ MarkChange(a)

\* C24: over the marking, across the runs, a slot has one mark or none; a
\* mark once set stays, but that an opcode mark becomes Opcode::Mutable when
\* another opcode is executed at its address, and a first opcode mark is
\* Mutable when the raw value mod 100 is not the opcode executed; a Mutable
\* mark stays Mutable; the mentions of a slot only grow.
C24_ImageInvariants ==
    [][(phase \in {"dynamic", "static"}) => ImageKept]_vars

\* in a second pass over the same address an ADD that has become a MUL is
\* executed: the mark of address 0 has collapsed to Mutable
C24_Witness ==
    /\ Len(slots) = 15
    /\ slots[1].raw = 1
    /\ slots[1].mark = OpcodeMark("Mutable")
    /\ slots[2].mark = ParamMark(Number("Positional", 12))
    /\ Mention("Write", 7) \in slots[15].mentions

\* statically::mark has returned and nothing has run since
StaticallyMarked == phase = "label"

\* C25: statically::mark returns with the mark of every slot that was marked
\* on entry as it was, and with a mark Opcode, Param, String or Data, or
\* none, on the slots that were unmarked on entry.
C25_StaticKeepsDynamicMarks ==
    /\ dres.kind # "StaticPanic"
    /\ StaticallyMarked =>
        \A a \in 1..Len(slots) :
            IF entry[a] # NoMark THEN slots[a].mark = entry[a]
            ELSE slots[a].mark.kind \in {"None", "Opcode", "Param", "String", "Data"}

\* the static marker has marked the data h, i as a string that ends where
\* the HLT marked by the run begins
C25_Witness ==
    /\ StaticallyMarked
    /\ original(slots) = <<4, 5, 1105, 1, 7, 104, 105, 99>>
    /\ entry[6] = NoMark /\ slots[6].mark = StringMark
    /\ entry[7] = NoMark /\ slots[7].mark = StringMark
    /\ entry[8] = OpcodeMark("Halt") /\ slots[8].mark = OpcodeMark("Halt")

(***************************************************************************)
(* The label source.                                                       *)
(***************************************************************************)
\* the sequence a, b, ..., k, m, ..., z, a0, a1, ..., z9: the label of index n
ListedSingles == SelectSeq(Letters, NotL)
ListedLabel(n) ==
    IF n < Len(ListedSingles) THEN Fixed(<<ListedSingles[n + 1]>>)
    ELSE Fixed(<<ListedSingles[((n - Len(ListedSingles)) \div Len(Digits)) + 1],
                 Digits[((n - Len(ListedSingles)) % Len(Digits)) + 1]>>)

\* C26: the labels unique() yields are pairwise distinct and are, in order,
\* the single letters a to z without l, then the pairs a0, a1, ..., z9
\* without the pairs of l.
C26_LabelsInListedOrder ==
    /\ \A n \in 1..Len(names) : names[n] = ListedLabel(n - 1)
    /\ \A n \in 1..Len(names) : \A m \in 1..Len(names) :
            names[n] = names[m] => n = m

(***************************************************************************)
(* The labeler.                                                            *)
(***************************************************************************)
\* the address after the instruction whose opcode is at a
InstrEnd(prog, a) ==
    IF prog[a + 1].mark.op = "Mutable" THEN ParamsEnd(prog, a + 1)
    ELSE a + 1 + Opcode_params(prog[a + 1].mark.op)

\* the slot i holds a parameter rewritten to a label
Rewritten(i) ==
    /\ slots[i + 1].mark.kind = "Param"
    /\ slots[i + 1].mark.param.kind = "Label"
LabelValue(i) ==
    IF slots[i + 1].mark.param.label = InstructionPointer
    THEN {InstrEnd(slots, instr_addr(slots, i)) + slots[i + 1].mark.param.value}
    ELSE {a + slots[i + 1].mark.param.value :
            a \in {b \in 0..(Len(slots) - 1) :
                     slots[b + 1].label = slots[i + 1].mark.param.label}}

\* C27: a parameter rewritten to Label(mode, ip, k) has as raw value the
\* address after its instruction plus k, and one rewritten to
\* Label(mode, L, k) the address of the slot that carries L plus k.
C27_LabelsKeepValues ==
    \A i \in 0..(Len(slots) - 1) :
        Rewritten(i) => LabelValue(i) = {slots[i + 1].raw}

(***************************************************************************)
(* The round trip: the image disassembled, written as text, parsed and     *)
(* assembled.                                                              *)
(***************************************************************************)
\* the runs were executed to completion, at least one of them
RunsCompleted ==
    /\ phase \notin {"idle", "dynamic", "static", "error"}
    /\ \E a \in 1..Len(entry) : entry[a].kind = "Opcode"
RoundTripDone == phase = "assemble" /\ asmResult # "none"

\* C21: for a program and runs that execute it to completion, the text of
\* to_ast(program, runs) assembles, and to the words of the program.
C21_RoundTripIsIdentity ==
    RunsCompleted =>
        /\ phase # "panic"
        /\ parsed # "Err"
        /\ asmResult # "Err"
        /\ RoundTripDone => output = original(slots)

(***************************************************************************)
(* The loops of eat_program.                                               *)
(***************************************************************************)
\* the end of input is the next token at p
EofSeen(src, p) == is_next(src, p, "is_eof") = POk(TRUE, p)

\* every iteration of the loop of the recovery entered at p eats at least
\* one character
RECURSIVE RecoveryConsumes(_, _)
RecoveryConsumesOf(src, p, n, e) ==
    IF n.ok /\ n.val THEN TRUE
    ELSE IF e.pos <= p THEN FALSE
    ELSE RecoveryConsumes(src, e.pos)
RecoveryConsumes(src, p) ==
    RecoveryConsumesOf(src, p, is_next(src, p, "is_newline_or_eof"), eat(src, p))

EatProgramProgress ==
    /\ cursor' <= Len(source)
    /\ IF parsed' = "none" THEN cursor' > cursor ELSE EofSeen(source, cursor')
    /\ \A r \in {eat_stmt(source, cursor)} :
            r.ok \/ RecoveryConsumes(source, r.pos)

\* C30: every iteration of the statement loop of eat_program leaves the
\* parser further in the text, or is the last and finds the end of input
\* next; every iteration of the loop of the recovery eats at least one
\* character; the parser never passes the end of the text.
C30_EatProgramTerminates == [][EatProgramProgress]_vars
C30_Witness ==
    /\ parsed = "Err"
    /\ cursor = Len(source)
    /\ Len(perrors) = 2
    /\ \A k \in 1..Len(perrors) : perrors[k].msg = "unexpected character"
====
